---- MODULE Spec2Model ----
(***************************************************************************)
(* FeatherClock: the HT16K33 display drivers (segment and 16x8 matrix) and *)
(* the helper functions of the 1.4.0 ESP32 clocks, as state machines.      *)
(*                                                                         *)
(* Bytes are integers 0..255 and buffers are functions over 0-based        *)
(* indices, as the bytearrays of the source.  Python's integer operators   *)
(* (&, |, ^, <<, >>, ~) are computed bit by bit on unbounded integers.     *)
(***************************************************************************)
EXTENDS Integers, Sequences, FiniteSets, TLC

VARIABLES
    pc,             \* position of the caller of a pure function
    arg,            \* the argument handed to the function
    ret,            \* the value the function returned
    kind,           \* the display class constructed: "segment" or "matrix"
    map,            \* HT16K33.map
    buffer,         \* the display buffer (bytearray)
    tx_buffer,      \* HT16K33.tx_buffer, the frame last written to I2C
    is_rotated,     \* HT16K33Segment.is_rotated
    use_uppercase,  \* HT16K33Segment.use_uppercase (selects charset)
    is_inverse,     \* HT16K33MatrixFeatherWing.is_inverse
    last,           \* the last driver call: name, arguments, outcome, state before
    prev,           \* the driver call before the last
    nops,           \* number of driver calls made so far
    prefs,          \* the global prefs: a dictionary, key to value
    wout,           \* what wout.isconnected() reports
    clock_now,      \* clock(): now, the tuple gmtime() gave this pass
    timecheck,      \* clock(): the RTC was set in this visit to a sync hour
    flipped,        \* clock(): the face was flipped in this run of seconds
    received,       \* clock(): the forecast was asked for in this minute
    face_index,     \* clock(): index, the face shown, an index of faces
    con_count,      \* connect(): the polls made; 0 once its caller has gone on
    state,          \* connect(): the flashing mark is lit at the next poll
    saved_temp,     \* the global saved_temp
    looped,         \* clock(): a pass of the loop has read gmtime()
    rtc_call        \* what set_rtc() returned in the last step, "none" if not called

fnVars   == <<pc, arg, ret>>
dispVars == <<kind, map, buffer, tx_buffer, is_rotated, use_uppercase, is_inverse,
              last, prev, nops>>
clockVars == <<wout, clock_now, timecheck, flipped, received, face_index, con_count, state,
               saved_temp, looped, rtc_call>>
appVars  == <<prefs, wout, clock_now, timecheck, flipped, received, face_index, con_count, state,
              saved_temp, looped, rtc_call>>
vars     == <<pc, arg, ret, kind, map, buffer, tx_buffer, is_rotated, use_uppercase,
              is_inverse, last, prev, nops, prefs, wout, clock_now, timecheck, flipped,
              received, face_index, con_count, state, saved_temp, looped, rtc_call>>

----------------------------------------------------------------------------
(* Python integer operators *)

Pow2(n) == 2 ^ n

Shl(a, n) == a * Pow2(n)

Shr(a, n) == a \div Pow2(n)

RECURSIVE BitAnd(_, _)
BitAnd(a, b) ==
    IF a = 0 \/ b = 0 THEN 0
    ELSE (a % 2) * (b % 2) + 2 * BitAnd(a \div 2, b \div 2)

RECURSIVE BitOr(_, _)
BitOr(a, b) ==
    IF a = 0 THEN b
    ELSE IF b = 0 THEN a
    ELSE (IF (a % 2) + (b % 2) > 0 THEN 1 ELSE 0) + 2 * BitOr(a \div 2, b \div 2)

RECURSIVE BitXor(_, _)
BitXor(a, b) ==
    IF a = 0 THEN b
    ELSE IF b = 0 THEN a
    ELSE (((a % 2) + (b % 2)) % 2) + 2 * BitXor(a \div 2, b \div 2)

Invert(a) == (-a) - 1

Bit(a, n) == (a \div Pow2(n)) % 2

----------------------------------------------------------------------------
(* bcd(): double dabble, eight shifts, correction before all but the last *)

RECURSIVE bcd_loop_NoTensCorrection(_, _)
bcd_loop_NoTensCorrection(bin_value, i) ==
    IF i = 8 THEN bin_value
    ELSE LET s == Shl(bin_value, 1) IN
         IF i = 7 THEN s
         ELSE LET a == IF BitAnd(s, \hF00) > \h5FF THEN s + \h300 ELSE s
                  b == IF BitAnd(a, \hF000) > \h4FFF THEN a + \h3000 ELSE a
              IN  bcd_loop_NoTensCorrection(b, i + 1)

RECURSIVE bcd_loop(_, _)
bcd_loop(bin_value, i) ==
    IF i = 8 THEN bin_value
    ELSE LET s == Shl(bin_value, 1) IN
         IF i = 7 THEN s
         ELSE LET a == IF BitAnd(s, \hF00) > \h4FF THEN s + \h300 ELSE s
                  b == IF BitAnd(a, \hF000) > \h4FFF THEN a + \h3000 ELSE a
              IN  bcd_loop(b, i + 1)

\* bcd() returning every bit above the ones digit
bcd_KeepHundreds(bin_value) == Shr(bcd_loop(bin_value, 0), 8)

\* return (bin_value >> 8) & 0xFF
bcd(bin_value) == BitAnd(Shr(bcd_loop(bin_value, 0), 8), \hFF)

\* The values handed to bcd(): every 8-bit value
BcdInputs == 0 .. 255

BcdInit ==
    /\ pc = "call"
    /\ arg \in BcdInputs
    /\ ret = -1

CallBcd ==
    /\ pc = "call"
    /\ ret' = bcd(arg)
    /\ pc' = "done"
    /\ UNCHANGED arg

----------------------------------------------------------------------------
(* HT16K33._map_word() and the maps a display may be constructed with *)

IdentityMap == [i \in 0 .. 15 |-> i]

\* [1, 0, 2, 3, ..., 15]
Swap01Map == [i \in 0 .. 15 |-> IF i = 0 THEN 1 ELSE IF i = 1 THEN 0 ELSE i]

ReverseMap == [i \in 0 .. 15 |-> 15 - i]

RotateMap(r) == [i \in 0 .. 15 |-> (i + r) % 16]

\* a 16-entry map that is no permutation: rows 0 and 1 both drive bit 0
DuplicateMap == [i \in 0 .. 15 |-> IF i = 1 THEN 0 ELSE i]

MaxRot == 2

Maps == {IdentityMap, Swap01Map, ReverseMap, DuplicateMap}
            \cup {RotateMap(r) : r \in 1 .. MaxRot}

IsPermutation(m) == {m[i] : i \in 0 .. 15} = 0 .. 15

\* k |= value for a value with at most the bit p set
OrBit(k, value, p) == IF value = 0 \/ Bit(k, p) = 1 THEN k ELSE k + value

\* _map_word() keeping every bit where it is
RECURSIVE map_word_loop_SourceIndex(_, _, _, _)
map_word_loop_SourceIndex(m, bb, i, k) ==
    IF i = 16 THEN k
    ELSE LET bit == Bit(bb, i)
             value == Shl(bit, i)
         IN  map_word_loop_SourceIndex(m, bb, i + 1, OrBit(k, value, i))

\* _map_word(), the loop from bit i on: bit is (bb & (1 << i)) >> i, bit i
\* of bb, and k |= bit << map[i]
RECURSIVE map_word_loop(_, _, _, _)
map_word_loop(m, bb, i, k) ==
    IF i = 16 THEN k
    ELSE LET bit == Bit(bb, i)
             value == Shl(bit, m[i])
         IN  map_word_loop(m, bb, i + 1, OrBit(k, value, m[i]))

_map_word(m, bb) == map_word_loop(m, bb, 0, 0)

Words == 0 .. 65535

\* Bytes with no, one low, one high, alternating and all bits set
SampleBytes == {\h00, \h01, \h80, \hA5, \hFF}

\* Every pattern of one byte of the word beside a sample of the other byte
SampleWords ==
    {lo + Shl(hi, 8) : lo \in 0 .. 255, hi \in SampleBytes}
        \cup {lo + Shl(hi, 8) : lo \in SampleBytes, hi \in 0 .. 255}

\* The identity map is applied to every 16-bit word, the others to the sample
MapInit ==
    /\ pc = "call"
    /\ map \in Maps
    /\ arg \in IF map = IdentityMap THEN Words ELSE SampleWords
    /\ ret = -1

CallMapWord ==
    /\ pc = "call"
    /\ ret' = _map_word(map, arg)
    /\ pc' = "done"
    /\ UNCHANGED <<arg, map>>

----------------------------------------------------------------------------
(* HT16K33: the generic driver *)

\* A cleared bytearray of n bytes
Zeros(n) == [i \in 0 .. n - 1 |-> 0]

BufLen(buf) == Cardinality(DOMAIN buf)

\* clear(): every byte of the buffer becomes 0x00
clear(buf) == [i \in DOMAIN buf |-> \h00]

\* _render(), first loop: the buffer copied into src_buffer
render_src(buf) ==
    IF BufLen(buf) = 8
    THEN [i \in 0 .. 15 |-> IF i % 2 = 0 THEN buf[i \div 2] ELSE 0]
    ELSE [i \in DOMAIN buf |-> buf[i]]

\* _render(), mapping loop from index i on: for i = 1, 3, ... the word
\* src[i] << 8 | src[i - 1] is mapped and stored low byte first at tx[i],
\* tx[i + 1]; tx[0] is not written
RECURSIVE render_loop(_, _, _, _)
render_loop(m, src, tx, i) ==
    IF i >= BufLen(src) THEN tx
    ELSE LET k == _map_word(m, BitOr(Shl(src[i], 8), src[i - 1]))
         IN  render_loop(m, src,
                         [tx EXCEPT ![i] = BitAnd(k, \hFF),
                                    ![i + 1] = BitAnd(Shr(k, 8), \hFF)],
                         i + 2)

\* _render() without the mapper: every row drives its own bit
render_tx_Unmapped(m, buf, tx) == render_loop(IdentityMap, render_src(buf), tx, 1)

\* _render(): the frame written to I2C
render_tx(m, buf, tx) == render_loop(m, render_src(buf), tx, 1)

\* What a driver call returns: the exception raised ("" if none), the
\* buffer it leaves and the value it returns
Returns(buf, result) == [exc |-> "", buffer |-> buf, result |-> result]

Raises(exc, buf) == [exc |-> exc, buffer |-> buf, result |-> "none"]

----------------------------------------------------------------------------
(* HT16K33Segment *)

HT16K33_SEGMENT_COLON_ROW == \h04

HT16K33_SEGMENT_MINUS_CHAR == \h10

HT16K33_SEGMENT_DEGREE_CHAR == \h11

HT16K33_SEGMENT_SPACE_CHAR == \h12

POS == [d \in 0 .. 3 |-> <<0, 2, 6, 8>>[d + 1]]

CHARSET ==
    [c \in 0 .. 18 |->
        <<\h3F, \h06, \h5B, \h4F, \h66, \h6D, \h7D, \h07, \h7F, \h6F,
          \h5F, \h7C, \h58, \h5E, \h7B, \h71, \h40, \h63, \h00>>[c + 1]]

CHARSET_UC ==
    [c \in 0 .. 18 |->
        <<\h3F, \h06, \h5B, \h4F, \h66, \h6D, \h7D, \h07, \h7F, \h6F,
          \h77, \h7C, \h39, \h5E, \h79, \h71, \h40, \h63, \h00>>[c + 1]]

\* self.charset, as _set_case() keeps it
charset(uc) == IF uc THEN CHARSET_UC ELSE CHARSET

\* Strings are sequences of character codes
Str(text) ==
    CASE text = "deg" -> <<100, 101, 103>>
      [] text = "DEG" -> <<68, 69, 71>>
      [] text = "-" -> <<45>>
      [] text = " " -> <<32>>
      [] text = "abcdef" -> <<97, 98, 99, 100, 101, 102>>
      [] text = "0123456789" -> <<48, 49, 50, 51, 52, 53, 54, 55, 56, 57>>

\* str(number) of a single decimal digit
str(number) == <<48 + number>>

\* char.lower()
lower(char) == [i \in 1 .. Len(char) |->
                    IF char[i] \in 65 .. 90 THEN char[i] + 32 ELSE char[i]]

\* char in text (substring test)
Contains(text, char) ==
    \E i \in 1 .. Len(text) + 1 :
        /\ i + Len(char) - 1 <= Len(text)
        /\ SubSeq(text, i, i + Len(char) - 1) = char

\* set_colon(): byte 4 is 0x02 or 0x00
set_colon(buf, colon_set) ==
    Returns([buf EXCEPT ![HT16K33_SEGMENT_COLON_ROW] = IF colon_set = TRUE THEN \h02 ELSE \h00],
            "self")

\* set_glyph() merging the glyph into the byte already there
set_glyph_Merging(buf, glyph, digit, has_dot) ==
    IF ~ (0 <= digit /\ digit < 4) THEN Raises("AssertionError", buf)
    ELSE IF ~ (0 <= glyph /\ glyph < \h80) THEN Raises("AssertionError", buf)
    ELSE LET b1 == [buf EXCEPT ![POS[digit]] = BitOr(buf[POS[digit]], glyph)]
             b2 == IF has_dot = TRUE
                   THEN [b1 EXCEPT ![POS[digit]] = BitOr(b1[POS[digit]], \h80)]
                   ELSE b1
         IN  Returns(b2, "self")

\* set_glyph()
set_glyph(buf, glyph, digit, has_dot) ==
    IF ~ (0 <= digit /\ digit < 4) THEN Raises("AssertionError", buf)
    ELSE IF ~ (0 <= glyph /\ glyph < \h80) THEN Raises("AssertionError", buf)
    ELSE LET b1 == [buf EXCEPT ![POS[digit]] = glyph]
             b2 == IF has_dot = TRUE
                   THEN [b1 EXCEPT ![POS[digit]] = BitOr(b1[POS[digit]], \h80)]
                   ELSE b1
         IN  Returns(b2, "self")

\* char_val showing an unknown character as a space
char_val_UnknownIsSpace(char) ==
    IF char = Str("deg") THEN HT16K33_SEGMENT_DEGREE_CHAR
    ELSE IF char = Str("-") THEN HT16K33_SEGMENT_MINUS_CHAR
    ELSE IF char = Str(" ") THEN HT16K33_SEGMENT_SPACE_CHAR
    ELSE IF Len(char) = 1 /\ Contains(Str("abcdef"), char) THEN char[1] - 87
    ELSE IF Len(char) = 1 /\ Contains(Str("0123456789"), char) THEN char[1] - 48
    ELSE HT16K33_SEGMENT_SPACE_CHAR

\* set_character(), the choice of char_val; 0xFF stands for an unknown
\* character and -1 for a TypeError of ord()
char_val(char) ==
    IF char = Str("deg") THEN HT16K33_SEGMENT_DEGREE_CHAR
    ELSE IF char = Str("-") THEN HT16K33_SEGMENT_MINUS_CHAR
    ELSE IF char = Str(" ") THEN HT16K33_SEGMENT_SPACE_CHAR
    ELSE IF Contains(Str("abcdef"), char)
         THEN (IF Len(char) = 1 THEN char[1] - 87 ELSE -1)
    ELSE IF Contains(Str("0123456789"), char)
         THEN (IF Len(char) = 1 THEN char[1] - 48 ELSE -1)
    ELSE \hFF

\* set_character() merging the character into the byte already there
set_character_Merging(buf, uc, char, digit, has_dot) ==
    IF ~ (0 <= digit /\ digit < 4) THEN Raises("AssertionError", buf)
    ELSE LET v == char_val(lower(char)) IN
         IF v = -1 THEN Raises("TypeError", buf)
         ELSE IF ~ (v # \hFF) THEN Raises("AssertionError", buf)
         ELSE LET b1 == [buf EXCEPT ![POS[digit]] = BitOr(buf[POS[digit]], charset(uc)[v])]
                  b2 == IF has_dot = TRUE
                        THEN [b1 EXCEPT ![POS[digit]] = BitOr(b1[POS[digit]], \h80)]
                        ELSE b1
              IN  Returns(b2, "self")

\* set_character()
set_character(buf, uc, char, digit, has_dot) ==
    IF ~ (0 <= digit /\ digit < 4) THEN Raises("AssertionError", buf)
    ELSE LET v == char_val(lower(char)) IN
         IF v = -1 THEN Raises("TypeError", buf)
         ELSE IF ~ (v # \hFF) THEN Raises("AssertionError", buf)
         ELSE LET b1 == [buf EXCEPT ![POS[digit]] = charset(uc)[v]]
                  b2 == IF has_dot = TRUE
                        THEN [b1 EXCEPT ![POS[digit]] = BitOr(b1[POS[digit]], \h80)]
                        ELSE b1
              IN  Returns(b2, "self")

\* set_number()
set_number(buf, uc, number, digit, has_dot) ==
    IF ~ (0 <= digit /\ digit < 4) THEN Raises("AssertionError", buf)
    ELSE IF ~ (0 <= number /\ number < 10) THEN Raises("AssertionError", buf)
    ELSE set_character(buf, uc, str(number), digit, has_dot)

\* draw(), rotation of one digit: bits 0-2 and 3-5 change places
rotate_digit_NoShiftBack(a) ==
    BitOr(BitOr(BitAnd(a, \hC0), Shl(BitAnd(a, \h07), 3)), BitAnd(a, \h38))

rotate_digit(a) ==
    BitOr(BitOr(BitAnd(a, \hC0), Shl(BitAnd(a, \h07), 3)), Shr(BitAnd(a, \h38), 3))

\* draw(), the rotation of the buffer: digits 0,3 and 1,2 change places,
\* then each digit is rotated
rotate_buffer(buf) ==
    LET s1 == [buf EXCEPT ![POS[0]] = buf[POS[3]], ![POS[3]] = buf[POS[0]]]
        s2 == [s1 EXCEPT ![POS[1]] = s1[POS[2]], ![POS[2]] = s1[POS[1]]]
    IN  [i \in DOMAIN s2 |->
            IF i \in {POS[d] : d \in 0 .. 3} THEN rotate_digit(s2[i]) ELSE s2[i]]

\* HT16K33Segment.draw(): the buffer as it is rendered, and as it is left
segment_draw_buffer(buf, rotated) == IF rotated THEN rotate_buffer(buf) ELSE buf

----------------------------------------------------------------------------
(* HT16K33MatrixFeatherWing *)

width == 16

height == 8

\* Python's False where an index is expected
NoRow == -1

\* _get_row() without the offset of the columns 0..7
get_row_NoHalves(x) ==
    LET a == 1 + Shl(x, 1)
    IN  IF a >= width * 2 THEN NoRow ELSE a

\* _get_row(): the buffer index of column x, or False when out of range
_get_row(x) ==
    LET a0 == 1 + Shl(x, 1)
        a == IF x < 8 THEN a0 + 15 ELSE a0
    IN  IF a >= width * 2 THEN NoRow ELSE a

\* set_inverse() leaving the buffer alone
set_inverse_FlagOnly(buf) == buf

\* set_inverse(), the buffer: every byte complemented
set_inverse(buf) == [i \in DOMAIN buf |-> BitAnd(Invert(buf[i]), \hFF)]

\* set_icon(), the loop from glyph byte i on: stops at the first column
\* whose row is out of range
RECURSIVE set_icon_loop(_, _, _, _, _)
set_icon_loop(buf, inverse, glyph, column, i) ==
    IF i > Len(glyph) THEN buf
    ELSE LET buf_column == _get_row(column + (i - 1)) IN
         IF buf_column = NoRow THEN buf
         ELSE set_icon_loop(
                [buf EXCEPT ![buf_column] =
                    IF inverse = FALSE THEN glyph[i]
                    ELSE BitAnd(Invert(glyph[i]), \hFF)],
                inverse, glyph, column, i + 1)

\* set_icon() refusing a glyph that runs past the last column
set_icon_Strict(buf, inverse, glyph, column) ==
    IF ~ (0 < Len(glyph) /\ Len(glyph) <= width * 2) THEN Raises("AssertionError", buf)
    ELSE IF ~ (0 <= column /\ column < width) THEN Raises("AssertionError", buf)
    ELSE IF column + Len(glyph) > width THEN Raises("AssertionError", buf)
    ELSE Returns(set_icon_loop(buf, inverse, glyph, column, 1), "self")

\* set_icon()
set_icon(buf, inverse, glyph, column) ==
    IF ~ (0 < Len(glyph) /\ Len(glyph) <= width * 2) THEN Raises("AssertionError", buf)
    ELSE IF ~ (0 <= column /\ column < width) THEN Raises("AssertionError", buf)
    ELSE Returns(set_icon_loop(buf, inverse, glyph, column, 1), "self")

\* HT16K33MatrixFeatherWing.CHARSET: the digits 0-9 and the space
MAT_CHARSET ==
    [c \in 0 .. 10 |->
        << <<\h7C, \h82, \h7C>>, <<\h42, \hFE, \h02>>, <<\h4E, \h92, \h62>>,
           <<\h44, \h92, \h6C>>, <<\hF0, \h08, \h3E>>, <<\h62, \h92, \h8E>>,
           <<\h7C, \h92, \h0C>>, <<\h8E, \h90, \hE0>>, <<\h6C, \h92, \h6C>>,
           <<\h60, \h92, \h7C>>, <<\h00, \h00, \h00>> >>[c + 1]]

\* def_chars as the constructor leaves it: 32 glyphs of one blank column
def_chars == [c \in 0 .. 31 |-> <<\h00>>]

\* HT16K33MatrixFeatherWing.set_character()
mat_set_character(buf, inverse, ascii_value, column) ==
    IF ~ (0 <= ascii_value /\ ascii_value < 128) THEN Raises("AssertionError", buf)
    ELSE IF ~ (0 <= column /\ column < width) THEN Raises("AssertionError", buf)
    ELSE LET glyph ==
                IF ascii_value < 32 THEN def_chars[ascii_value]
                ELSE LET a0 == ascii_value - 32
                         a == IF a0 < 0 \/ a0 >= Cardinality(DOMAIN MAT_CHARSET) THEN 0 ELSE a0
                     IN  MAT_CHARSET[a]
         IN  set_icon(buf, inverse, glyph, column)

\* is_set()
is_set(buf, x, y) ==
    IF ~ ((0 <= x /\ x < width) /\ (0 <= y /\ y < height)) THEN Raises("AssertionError", buf)
    ELSE LET bit == BitAnd(Shr(buf[_get_row(x)], y), 1)
         IN  Returns(buf, IF bit > 0 THEN TRUE ELSE FALSE)

\* plot() ignoring the xor flag
plot_NoXor(buf, x, y, ink0, xor) ==
    IF ~ ((0 <= x /\ x < width) /\ (0 <= y /\ y < height)) THEN Raises("AssertionError", buf)
    ELSE LET ink == IF ink0 \notin {0, 1} THEN 1 ELSE ink0
             x2 == _get_row(x)
             old == buf[x2]
             new == IF ink = 1
                    THEN (IF BitAnd(old, Shl(1, y)) = 0 THEN BitOr(old, Shl(1, y)) ELSE old)
                    ELSE (IF BitAnd(old, Shl(1, y)) # 0
                          THEN BitAnd(old, Invert(Shl(1, y))) ELSE old)
         IN  Returns([buf EXCEPT ![x2] = new], "self")

\* plot()
plot(buf, x, y, ink0, xor) ==
    IF ~ ((0 <= x /\ x < width) /\ (0 <= y /\ y < height)) THEN Raises("AssertionError", buf)
    ELSE LET ink == IF ink0 \notin {0, 1} THEN 1 ELSE ink0
             x2 == _get_row(x)
             old == buf[x2]
             lit == is_set(buf, x, y).result
             new == IF ink = 1
                    THEN (IF lit /\ xor THEN BitXor(old, Shl(1, y))
                          ELSE IF BitAnd(old, Shl(1, y)) = 0
                               THEN BitOr(old, Shl(1, y)) ELSE old)
                    ELSE (IF ~ lit /\ xor THEN BitXor(old, Shl(1, y))
                          ELSE IF BitAnd(old, Shl(1, y)) # 0
                               THEN BitAnd(old, Invert(Shl(1, y))) ELSE old)
         IN  Returns([buf EXCEPT ![x2] = new], "self")

----------------------------------------------------------------------------
(* The pictures the clock shows, and the driver calls as actions *)

\* sync_text() of the segment clock: 'SYNC' as four glyphs
SegSyncGlyphs == <<\h6D, \h6E, \h37, \h39>>

RECURSIVE seg_sync_loop(_, _)
seg_sync_loop(buf, i) ==
    IF i = 4 THEN buf
    ELSE seg_sync_loop(set_glyph(buf, SegSyncGlyphs[i + 1], i, FALSE).buffer, i + 1)

seg_sync_text(buf) == seg_sync_loop(clear(buf), 0)

\* sync_text() of the matrix clock: 'SYNC' as one icon of 15 columns
MatSyncIcon == <<\h62, \h92, \h8C, \h00, \h30, \h0E, \h30, \h00,
                 \h1E, \h20, \h1E, \h00, \h1C, \h22, \h14>>

mat_sync_text(buf, inverse) == set_icon(clear(buf), inverse, MatSyncIcon, 0).buffer

\* display_clock() of the segment clock at 12:34 pm in 12-hour mode, not
\* connected, colon lit: '1.2:34.'
SegTimeShown(uc) ==
    LET b0 == set_number(Zeros(16), uc, 1, 0, TRUE).buffer
        b1 == set_number(b0, uc, 2, 1, FALSE).buffer
        b2 == set_number(b1, uc, 3, 2, FALSE).buffer
        b3 == set_number(b2, uc, 4, 3, TRUE).buffer
    IN  set_colon(b3, TRUE).buffer

\* The segment display after construction, after sync_text() and showing
\* the time
SegShown == {Zeros(16), seg_sync_text(Zeros(16)), SegTimeShown(FALSE)}

\* The matrix display after construction, after sync_text(), and after
\* sync_text() and set_inverse(): buffer and is_inverse
MatShown ==
    {<<Zeros(32), FALSE>>,
     <<mat_sync_text(Zeros(32), FALSE), FALSE>>,
     <<set_inverse(mat_sync_text(Zeros(32), FALSE)), TRUE>>}

\* An exception no caller catches ends the clock
Alive == last.exc = ""

Called(op, args, r) ==
    /\ last' = [op |-> op, args |-> args, exc |-> r.exc, result |-> r.result,
                before |-> buffer, was_inverse |-> is_inverse]
    /\ prev' = last
    /\ buffer' = r.buffer
    /\ nops' = nops + 1
    /\ UNCHANGED <<pc, arg, ret, kind, map>>
    /\ UNCHANGED appVars

SetColon(colon_set) ==
    /\ kind = "segment" /\ Alive
    /\ Called("set_colon", <<colon_set>>, set_colon(buffer, colon_set))
    /\ UNCHANGED <<tx_buffer, is_rotated, use_uppercase, is_inverse>>

SetGlyph(glyph, digit, has_dot) ==
    /\ kind = "segment" /\ Alive
    /\ Called("set_glyph", <<glyph, digit, has_dot>>, set_glyph(buffer, glyph, digit, has_dot))
    /\ UNCHANGED <<tx_buffer, is_rotated, use_uppercase, is_inverse>>

SetNumber(number, digit, has_dot) ==
    /\ kind = "segment" /\ Alive
    /\ Called("set_number", <<number, digit, has_dot>>,
              set_number(buffer, use_uppercase, number, digit, has_dot))
    /\ UNCHANGED <<tx_buffer, is_rotated, use_uppercase, is_inverse>>

SetCharacter(char, digit, has_dot) ==
    /\ kind = "segment" /\ Alive
    /\ Called("set_character", <<char, digit, has_dot>>,
              set_character(buffer, use_uppercase, char, digit, has_dot))
    /\ UNCHANGED <<tx_buffer, is_rotated, use_uppercase, is_inverse>>

\* rotate(): the flag flips, nothing is drawn
Rotate ==
    /\ kind = "segment" /\ Alive
    /\ is_rotated' = ~ is_rotated
    /\ Called("rotate", <<>>, Returns(buffer, "self"))
    /\ UNCHANGED <<tx_buffer, use_uppercase, is_inverse>>

\* set_uppercase(), set_lowercase(): _set_case()
SetCase(is_upper) ==
    /\ kind = "segment" /\ Alive
    /\ use_uppercase' = IF use_uppercase # is_upper THEN is_upper ELSE use_uppercase
    /\ Called(IF is_upper THEN "set_uppercase" ELSE "set_lowercase", <<>>,
              Returns(buffer, "self"))
    /\ UNCHANGED <<tx_buffer, is_rotated, is_inverse>>

Clear ==
    /\ kind \in {"segment", "matrix"} /\ Alive
    /\ Called("clear", <<>>, Returns(clear(buffer), "self"))
    /\ UNCHANGED <<tx_buffer, is_rotated, use_uppercase, is_inverse>>

\* draw(): HT16K33Segment.draw() rotates the buffer where it lies and
\* renders it; the matrix class inherits HT16K33.draw()
Draw ==
    /\ kind \in {"segment", "matrix"} /\ Alive
    /\ LET b == IF kind = "segment" THEN segment_draw_buffer(buffer, is_rotated)
                ELSE buffer
       IN  /\ tx_buffer' = render_tx(map, b, tx_buffer)
           /\ Called("draw", <<>>, Returns(b, "none"))
    /\ UNCHANGED <<is_rotated, use_uppercase, is_inverse>>

\* update(): HT16K33.update(), which no class overrides
Update ==
    /\ kind \in {"segment", "matrix"} /\ Alive
    /\ tx_buffer' = render_tx(map, buffer, tx_buffer)
    /\ Called("update", <<>>, Returns(buffer, "none"))
    /\ UNCHANGED <<is_rotated, use_uppercase, is_inverse>>

SetInverse ==
    /\ kind = "matrix" /\ Alive
    /\ is_inverse' = ~ is_inverse
    /\ Called("set_inverse", <<>>, Returns(set_inverse(buffer), "self"))
    /\ UNCHANGED <<tx_buffer, is_rotated, use_uppercase>>

SetIcon(glyph, column) ==
    /\ kind = "matrix" /\ Alive
    /\ Called("set_icon", <<glyph, column>>, set_icon(buffer, is_inverse, glyph, column))
    /\ UNCHANGED <<tx_buffer, is_rotated, use_uppercase, is_inverse>>

\* set_character() of the matrix class
SetMatCharacter(ascii_value, column) ==
    /\ kind = "matrix" /\ Alive
    /\ Called("matrix_set_character", <<ascii_value, column>>,
              mat_set_character(buffer, is_inverse, ascii_value, column))
    /\ UNCHANGED <<tx_buffer, is_rotated, use_uppercase, is_inverse>>

Plot(x, y, ink, xor) ==
    /\ kind = "matrix" /\ Alive
    /\ Called("plot", <<x, y, ink, xor>>, plot(buffer, x, y, ink, xor))
    /\ UNCHANGED <<tx_buffer, is_rotated, use_uppercase, is_inverse>>

IsSet(x, y) ==
    /\ kind = "matrix" /\ Alive
    /\ Called("is_set", <<x, y>>, is_set(buffer, x, y))
    /\ UNCHANGED <<tx_buffer, is_rotated, use_uppercase, is_inverse>>

\* sync_text(): clear, write 'SYNC', draw
SyncText ==
    /\ kind \in {"segment", "matrix"} /\ Alive
    /\ LET b == IF kind = "segment"
                THEN segment_draw_buffer(seg_sync_text(buffer), is_rotated)
                ELSE mat_sync_text(buffer, is_inverse)
       IN  /\ tx_buffer' = render_tx(map, b, tx_buffer)
           /\ Called("sync_text", <<>>, Returns(b, "none"))
    /\ UNCHANGED <<is_rotated, use_uppercase, is_inverse>>

----------------------------------------------------------------------------
(* Idle values of the parts a specification does not use *)

NoCall == [op |-> "none", args |-> <<>>, exc |-> "", result |-> "none",
           before |-> <<>>, was_inverse |-> FALSE]

FnIdle == pc = "idle" /\ arg = 0 /\ ret = 0

\* the clock before connect() and clock() run: power-on time, nothing drawn
PowerOn == <<2000, 1, 1, 0, 0, 0>>

ClockIdle ==
    /\ wout = FALSE
    /\ clock_now = PowerOn
    /\ timecheck = FALSE
    /\ flipped = FALSE
    /\ received = FALSE
    /\ face_index = 0
    /\ con_count = 0
    /\ state = TRUE
    /\ saved_temp = 0
    /\ looped = FALSE
    /\ rtc_call = "none"

\* prefs = None
AppIdle == prefs = <<>> /\ ClockIdle

DispIdle ==
    /\ kind = "none"
    /\ buffer = <<>>
    /\ tx_buffer = <<>>
    /\ is_rotated = FALSE
    /\ use_uppercase = FALSE
    /\ is_inverse = FALSE
    /\ last = NoCall
    /\ prev = NoCall
    /\ nops = 0

----------------------------------------------------------------------------
(* Specification of bcd() *)

InitBcd == BcdInit /\ map = IdentityMap /\ DispIdle /\ AppIdle

NextBcd == CallBcd /\ UNCHANGED dispVars /\ UNCHANGED appVars

SpecBcd == InitBcd /\ [][NextBcd]_vars

(* Specification of _map_word() *)

InitMap == MapInit /\ DispIdle /\ AppIdle

NextMap == CallMapWord /\ UNCHANGED <<kind, buffer, tx_buffer, is_rotated,
                                      use_uppercase, is_inverse, last, prev, nops>>
                       /\ UNCHANGED appVars

SpecMap == InitMap /\ [][NextMap]_vars


(* Specification of one buffer write on a display that shows something *)

\* The symbols of the segment charset: 0-9, a-f, minus, space, degree
SegSymbols ==
    {<<c>> : c \in 48 .. 57} \cup {<<c>> : c \in 97 .. 102}
        \cup {Str("-"), Str(" "), Str("deg")}

\* ... in upper case: 'A', 'F', 'DEG'
UpperSymbols == {<<65>>, <<70>>, Str("DEG")}

\* ... and strings outside the charset: 'g', '', 'ab'
OtherStrings == {<<103>>, <<>>, <<97, 98>>}

WriteDigits == -1 .. 4

WriteNumbers == -1 .. 10

WriteGlyphs == {-1, \h00, \h49, \h7F, \h80}

\* the glyph of '0', the thermometer icon of display_temperature(), 'SYNC'
\* and an empty glyph
WriteIcons == {<<\h7C, \h82, \h7C>>, <<\h40, \h1C, \h22, \h14>>, MatSyncIcon, <<>>}

WriteColumns == {-1, 0, 2, 12, 13, 14, 15, 16}

\* Ascii codes: user-defined characters, ' ', '!', '*', '+', '0', '9', 'A',
\* the last code and the codes next to the range
WriteCodes == {-1, 0, 31, 32, 33, 42, 43, 48, 57, 65, 127, 128}

MaxCalls == 1

InitWrite ==
    /\ FnIdle
    /\ AppIdle
    /\ map = IdentityMap
    /\ kind \in {"segment", "matrix"}
    /\ IF kind = "segment"
       THEN /\ buffer \in SegShown
            /\ use_uppercase \in BOOLEAN
            /\ is_inverse = FALSE
       ELSE /\ \E shown \in MatShown : buffer = shown[1] /\ is_inverse = shown[2]
            /\ use_uppercase = FALSE
    /\ is_rotated = FALSE
    /\ tx_buffer = render_tx(map, buffer, Zeros(BufLen(buffer) + 1))
    /\ last = NoCall
    /\ prev = NoCall
    /\ nops = 0

NextWrite ==
    /\ nops < MaxCalls
    /\ \/ \E b \in BOOLEAN : SetColon(b)
       \/ \E g \in WriteGlyphs, d \in WriteDigits, dot \in BOOLEAN : SetGlyph(g, d, dot)
       \/ \E n \in WriteNumbers, d \in WriteDigits, dot \in BOOLEAN : SetNumber(n, d, dot)
       \/ \E c \in SegSymbols \cup UpperSymbols \cup OtherStrings,
             d \in WriteDigits, dot \in BOOLEAN : SetCharacter(c, d, dot)
       \/ \E x \in -1 .. width, y \in -1 .. height, ink \in {0, 1}, xor \in BOOLEAN :
             Plot(x, y, ink, xor)
       \/ \E x \in -1 .. width, y \in -1 .. height : IsSet(x, y)
       \/ \E g \in WriteIcons, c \in WriteColumns : SetIcon(g, c)
       \/ \E a \in WriteCodes, c \in WriteColumns : SetMatCharacter(a, c)

SpecWrite == InitWrite /\ [][NextWrite]_vars

(* Specification of drawing: sequences of calls that draw, rotate, invert
   and plot *)

DrawMaps == {IdentityMap, Swap01Map}

PlotXs == {5, 15}

PlotYs == {0, 3, 7}

MaxOps == 2

InitDraw ==
    /\ FnIdle
    /\ AppIdle
    /\ map \in DrawMaps
    /\ kind \in {"segment", "matrix"}
    /\ IF kind = "segment"
       THEN /\ buffer \in SegShown
            /\ is_rotated \in BOOLEAN
            /\ is_inverse = FALSE
       ELSE /\ \E shown \in MatShown : buffer = shown[1] /\ is_inverse = shown[2]
            /\ is_rotated = FALSE
    /\ use_uppercase = FALSE
    /\ tx_buffer = render_tx(map, buffer, Zeros(BufLen(buffer) + 1))
    /\ last = NoCall
    /\ prev = NoCall
    /\ nops = 0

NextDraw ==
    /\ nops < MaxOps
    /\ \/ Draw
       \/ Update
       \/ Rotate
       \/ Clear
       \/ SyncText
       \/ SetInverse
       \/ \E b \in BOOLEAN : SetCase(b)
       \/ \E b \in BOOLEAN : SetColon(b)
       \/ \E x \in PlotXs, y \in PlotYs, ink \in {0, 1}, xor \in BOOLEAN :
             Plot(x, y, ink, xor)

SpecDraw == InitDraw /\ [][NextDraw]_vars

----------------------------------------------------------------------------
(* Calendar functions.  A date is the start <<year, month, mday>> of the
   8-tuple of gmtime(): now[0], now[1], now[2] are date[1], date[2], date[3] *)

\* int(a / b) of Python for b > 0: the quotient cut towards zero
IntDiv(a, b) == IF a >= 0 THEN a \div b ELSE -((-a) \div b)

\* is_leap_year()
is_leap_year(year) == (year % 4 = 0) /\ ((year % 100 > 0) \/ (year % 400 = 0))

\* day_of_week(), for a year of four digits: str(year)[:2] is the century
\* and str(year)[2:] the year in it
day_of_week(day, month, year) ==
    LET m0 == month - 2
        m == IF m0 < 1 THEN m0 + 12 ELSE m0
        century == year \div 100
        y0 == year % 100
        y == IF m > 10 THEN y0 - 1 ELSE y0
        dow == day + IntDiv((13 * m) - 1, 5) + y + IntDiv(y, 4)
                   + IntDiv(century, 4) - (2 * century)
        d1 == dow % 7
    IN  IF d1 < 0 THEN d1 + 7 ELSE d1

\* the loop 'for index in range(31, 24, -1)' of bst_check(), from index on:
\* TRUE when some pass returns True
RECURSIVE bst_loop(_, _, _, _)
bst_loop(now, month, from_start, index) ==
    IF index = 24 THEN FALSE
    ELSE IF day_of_week(index, month, now[1]) = 0
            /\ (IF from_start THEN now[3] >= index ELSE now[3] < index)
         THEN TRUE
         ELSE bst_loop(now, month, from_start, index - 1)

\* bst_check() taking the last Sunday of March as still winter
bst_check_AfterStart(now) ==
    IF now[2] > 3 /\ now[2] < 10 THEN TRUE
    ELSE IF now[2] = 3
         THEN \E index \in 25 .. 31 :
                day_of_week(index, 3, now[1]) = 0 /\ now[3] > index
    ELSE IF now[2] = 10 /\ bst_loop(now, 10, FALSE, 31) THEN TRUE
    ELSE FALSE

\* bst_check()
bst_check(now) ==
    IF now[2] > 3 /\ now[2] < 10 THEN TRUE
    ELSE IF now[2] = 3 /\ bst_loop(now, 3, TRUE, 31) THEN TRUE
    ELSE IF now[2] = 10 /\ bst_loop(now, 10, FALSE, 31) THEN TRUE
    ELSE FALSE

\* is_bst()
is_bst(now) == bst_check(now)

\* The years the RTC of the ESP32 counts from
FirstYear == 2000

LastYear == 2099

DaysIn(year, month) ==
    IF month = 2 THEN (IF is_leap_year(year) THEN 29 ELSE 28)
    ELSE IF month \in {4, 6, 9, 11} THEN 30 ELSE 31

\* every valid date of the years FirstYear .. LastYear
Dates ==
    {date \in (FirstYear .. LastYear) \X (1 .. 12) \X (1 .. 31) :
        date[3] <= DaysIn(date[1], date[2])}

CalendarInit ==
    /\ pc = "call"
    /\ arg \in Dates
    /\ ret = -1

CallBstCheck ==
    /\ pc = "call"
    /\ ret' = bst_check(arg)
    /\ pc' = "bst_check"
    /\ UNCHANGED arg

CallDayOfWeek ==
    /\ pc = "call"
    /\ ret' = day_of_week(arg[3], arg[2], arg[1])
    /\ pc' = "day_of_week"
    /\ UNCHANGED arg

(* Specification of the calendar functions *)

InitCalendar == CalendarInit /\ map = IdentityMap /\ DispIdle /\ AppIdle

NextCalendar == (CallBstCheck \/ CallDayOfWeek) /\ UNCHANGED dispVars /\ UNCHANGED appVars

SpecCalendar == InitCalendar /\ [][NextCalendar]_vars

----------------------------------------------------------------------------
(* Preferences.  A value of JSON or of a dictionary is a pair of its type
   and its content: floats are counted in tenths *)

Bool(b) == <<"bool", b>>

Integer(n) == <<"int", n>>

Float(tenths) == <<"float", tenths>>

Text(s) == <<"str", s>>

\* key in d, for a dictionary
Has(d, key) == key \in DOMAIN d

\* d[key] = value
Put(d, key, value) ==
    [k \in DOMAIN d \cup {key} |-> IF k = key THEN value ELSE d[k]]

\* default_prefs()
default_prefs ==
    [k \in {"mode", "colon", "flash", "bright", "bst", "on", "url", "do_log",
            "show_date", "show_temp", "lat", "lng"} |->
        CASE k = "bright" -> Integer(10)
          [] k = "url" -> Text("@AGENT")
          [] k = "show_temp" -> Bool(FALSE)
          [] k \in {"lat", "lng"} -> Float(0)
          [] OTHER -> Bool(TRUE)]

\* the assignment made whether or not the key is there
Take_Resetting(p, prefs_data, key) ==
    Put(p, key, IF Has(prefs_data, key) THEN prefs_data[key] ELSE Bool(FALSE))

\* 'if key in prefs_data: prefs[key] = prefs_data[key]'
Take(p, prefs_data, key) ==
    IF Has(prefs_data, key) THEN Put(p, key, prefs_data[key]) ELSE p

\* set_prefs(): the prefs it leaves.  Without "lat" the code sets
\* prefs_data["show_temp"], which nothing reads afterwards, not prefs
set_prefs(p, prefs_data) ==
    LET p1 == Take(p, prefs_data, "mode")
        p2 == Take(p1, prefs_data, "colon")
        p3 == Take(p2, prefs_data, "flash")
        p4 == Take(p3, prefs_data, "bright")
        p5 == Take(p4, prefs_data, "on")
        p6 == Take(p5, prefs_data, "do_log")
        p7 == IF Has(prefs_data, "show_temp")
              THEN LET t1 == Put(p6, "show_temp", prefs_data["show_temp"])
                       t2 == Take(t1, prefs_data, "lat")
                   IN  IF Has(prefs_data, "lng")
                       THEN Put(t2, "lng", prefs_data["lng"])
                       ELSE Put(t2, "show_temp", Bool(FALSE))
              ELSE p6
    IN  Take(p7, prefs_data, "show_date")

\* What open("prefs.json") and json.loads() can give: no file, a file that
\* cannot be read, text that is no JSON, and JSON: an object, a number, a list
\* of strings
FileKinds == {"missing", "unreadable", "garbage", "object", "number", "array"}

\* load_prefs(): the prefs it leaves, the error it logs and the exception
\* that leaves it; only ValueError is caught around set_prefs()
load_prefs(p, file) ==
    CASE file[1] = "missing" -> [prefs |-> p, logged |-> "No prefs file", exc |-> ""]
      [] file[1] = "unreadable" ->
            [prefs |-> p, logged |-> "Prefs file could not be read", exc |-> ""]
      [] file[1] = "garbage" ->
            [prefs |-> p, logged |-> "Prefs JSON decode error", exc |-> ""]
      [] file[1] = "object" ->
            [prefs |-> set_prefs(p, file[2]), logged |-> "", exc |-> ""]
      [] file[1] = "number" -> [prefs |-> p, logged |-> "", exc |-> "TypeError"]
      [] file[1] = "array" ->
            IF \E i \in DOMAIN file[2] :
                    file[2][i] \in {"mode", "colon", "flash", "bright", "on", "do_log",
                                    "show_temp", "show_date"}
            THEN \* "mode" in prefs_data holds, prefs_data["mode"] raises; the
                 \* keys before the first one found are not in the list
                 [prefs |-> p, logged |-> "", exc |-> "TypeError"]
            ELSE [prefs |-> p, logged |-> "", exc |-> ""]

\* The keys of a prefs file: those the spec names, "url" of default_prefs()
\* and a key the clock does not know
RecognizedKeys == {"mode", "colon", "flash", "bright", "bst", "on", "do_log",
                   "show_temp", "lat", "lng", "show_date"}

FileKeys == RecognizedKeys \cup {"url", "colour"}

\* Three values for a key: two of the right type, the second out of range
\* where there is a range, and one of a wrong type
FileValue(key, n) ==
    CASE key = "bright" ->
            (CASE n = 1 -> Integer(3) [] n = 2 -> Integer(99) [] OTHER -> Text("max"))
      [] key \in {"lat", "lng"} ->
            (CASE n = 1 -> Float(515) [] n = 2 -> Float(-1) [] OTHER -> Text("north"))
      [] key \in {"url", "colour"} ->
            (CASE n = 1 -> Text("red") [] n = 2 -> Text("") [] OTHER -> Integer(0))
      [] OTHER ->
            (CASE n = 1 -> Bool(TRUE) [] n = 2 -> Bool(FALSE) [] OTHER -> Text("yes"))

\* the most keys an object of the file has
MaxKeys == 3

\* the objects with the keys K
PrefsObjects(K) == {[k \in K |-> FileValue(k, c[k])] : c \in [K -> 1 .. 3]}

\* the files whose object, where they hold one, has the keys K
PrefsFiles(K) ==
    {<<"missing">>, <<"unreadable">>, <<"garbage">>, <<"number", 5>>,
     <<"array", <<>> >>, <<"array", <<"colour">> >>, <<"array", <<"mode">> >>}
        \cup {<<"object", data>> : data \in PrefsObjects(K)}

\* featherclock(): default_prefs()
DefaultPrefs ==
    /\ pc = "boot"
    /\ prefs' = default_prefs
    /\ pc' = "load_prefs"
    /\ UNCHANGED <<arg, ret>>
    /\ UNCHANGED clockVars

\* featherclock(): load_prefs(); an exception leaves featherclock() and is
\* written to the crash file
LoadPrefs ==
    /\ pc = "load_prefs"
    /\ LET r == load_prefs(prefs, arg)
       IN  /\ prefs' = r.prefs
           /\ ret' = r.logged
           /\ pc' = IF r.exc = "" THEN "loaded" ELSE "crashed"
    /\ UNCHANGED arg
    /\ UNCHANGED clockVars

(* Specification of the preferences: defaults, then the file *)

InitPrefs ==
    /\ pc = "boot"
    /\ \E K \in {S \in SUBSET FileKeys : Cardinality(S) <= MaxKeys} : arg \in PrefsFiles(K)
    /\ ret = ""
    /\ prefs = <<>>
    /\ ClockIdle
    /\ map = IdentityMap
    /\ DispIdle

NextPrefs == (DefaultPrefs \/ LoadPrefs) /\ UNCHANGED dispVars

SpecPrefs == InitPrefs /\ [][NextPrefs]_vars

----------------------------------------------------------------------------
(* The clock faces.  A time t is the start <<year, month, mday, hour,
   minute, second>> of the tuple of gmtime(); a face is the list of driver
   calls it makes before its draw() *)

Hour(t) == t[4]

Minute(t) == t[5]

Second(t) == t[6]

\* 'value is True', 'value is False' and the truth of a value in an 'if'
IsTrue(value) == value = Bool(TRUE)

IsFalse(value) == value = Bool(FALSE)

Truthy(value) ==
    CASE value[1] = "bool" -> value[2]
      [] value[1] \in {"int", "float"} -> value[2] # 0
      [] value[1] = "str" -> value[2] # ""

\* one call of a list on the segment or the matrix display
Apply(buf, call) ==
    CASE call[1] = "set_glyph" -> set_glyph(buf, call[2], call[3], call[4])
      [] call[1] = "set_number" -> set_number(buf, FALSE, call[2], call[3], call[4])
      [] call[1] = "set_character" -> set_character(buf, FALSE, call[2], call[3], call[4])
      [] call[1] = "set_colon" -> set_colon(buf, call[2])
      [] call[1] = "clear" -> Returns(clear(buf), "self")
      [] call[1] = "set_icon" -> set_icon(buf, FALSE, call[2], call[3])
      [] call[1] = "plot" -> plot(buf, call[2], call[3], call[4], FALSE)
      [] call[1] = "set_digit" ->
            \* set_digit(): glyph = mat_led.CHARSET[value]
            IF call[2] \notin -11 .. 10 THEN Raises("IndexError", buf)
            ELSE set_icon(buf, FALSE, MAT_CHARSET[call[2] % 11], call[3])

\* the calls of a list from the i-th on, up to the first that raises
RECURSIVE Run(_, _, _)
Run(buf, calls, i) ==
    LET Then(r) == IF r.exc # "" THEN r ELSE Run(r.buffer, calls, i + 1)
    IN  IF i > Len(calls) THEN Returns(buf, "none")
        ELSE Then(Apply(buf, calls[i]))

\* display_clock() taking 23 from the hour after midnight
clock_hour_Minus23(p, t) ==
    LET Shown(now_hour) ==
            LET is_pm == now_hour > 11
                h2 == IF is_pm = TRUE THEN now_hour - 12 ELSE now_hour
                hour == IF IsFalse(p["mode"]) THEN (IF h2 = 0 THEN 12 ELSE h2)
                        ELSE now_hour
            IN  [hour |-> hour, is_pm |-> is_pm]
        Wrapped(h1) == Shown(IF h1 > 23 THEN h1 - 23 ELSE h1)
    IN  Wrapped(IF IsTrue(p["bst"]) /\ is_bst(t) = TRUE THEN Hour(t) + 1 ELSE Hour(t))

\* display_clock() with is_pm from noon on only after the hour is taken
clock_hour_PmAfterNoon(p, t) ==
    LET Shown(now_hour) ==
            LET is_pm == now_hour > 12
                h2 == IF now_hour > 11 THEN now_hour - 12 ELSE now_hour
                hour == IF IsFalse(p["mode"]) THEN (IF h2 = 0 THEN 12 ELSE h2)
                        ELSE now_hour
            IN  [hour |-> hour, is_pm |-> is_pm]
        Wrapped(h1) == Shown(IF h1 > 23 THEN h1 - 24 ELSE h1)
    IN  Wrapped(IF IsTrue(p["bst"]) /\ is_bst(t) = TRUE THEN Hour(t) + 1 ELSE Hour(t))

\* display_clock(): the hour shown and is_pm
clock_hour(p, t) ==
    LET Shown(now_hour) ==
            LET is_pm == now_hour > 11
                h2 == IF is_pm = TRUE THEN now_hour - 12 ELSE now_hour
                hour == IF IsFalse(p["mode"]) THEN (IF h2 = 0 THEN 12 ELSE h2)
                        ELSE now_hour
            IN  [hour |-> hour, is_pm |-> is_pm]
        Wrapped(h1) == Shown(IF h1 > 23 THEN h1 - 24 ELSE h1)
    IN  Wrapped(IF IsTrue(p["bst"]) /\ is_bst(t) = TRUE THEN Hour(t) + 1 ELSE Hour(t))

\* display_clock() of the segment clock
seg_display_clock(p, t, connected) ==
    LET mode == p["mode"]
        h == clock_hour(p, t)
        decimal == bcd(h.hour)
        minutes == bcd(Minute(t))
    IN  << IF IsFalse(mode) /\ h.hour < 10
           THEN <<"set_glyph", 0, 0, ~ connected>>
           ELSE <<"set_number", Shr(decimal, 4), 0, ~ connected>>,
           <<"set_number", BitAnd(decimal, \h0F), 1, FALSE>>,
           <<"set_number", Shr(minutes, 4), 2, FALSE>>,
           <<"set_number", BitAnd(minutes, \h0F), 3,
             IF IsFalse(mode) THEN h.is_pm ELSE FALSE>>,
           <<"set_colon", IsTrue(p["colon"])>> >>
        \o (IF IsTrue(p["colon"]) /\ IsTrue(p["flash"])
            THEN << <<"set_colon", Second(t) % 2 = 0>> >>
            ELSE <<>>)

\* display_date() of the segment clock
seg_display_date(t, connected) ==
    LET now_month == t[2]
        now_day == t[3]
        decimal == bcd(now_day)
        months == bcd(now_month)
    IN  << IF now_day < 10
           THEN <<"set_glyph", 0, 0, ~ connected>>
           ELSE <<"set_number", Shr(decimal, 4), 0, ~ connected>>,
           <<"set_number", BitAnd(decimal, \h0F), 1, FALSE>>,
           IF now_month < 10
           THEN <<"set_glyph", 0, 2, FALSE>>
           ELSE <<"set_number", Shr(months, 4), 2, FALSE>>,
           <<"set_number", BitAnd(months, \h0F), 3, FALSE>>,
           <<"set_colon", FALSE>> >>

\* display_temperature() of the segment clock
seg_display_temperature(temperature) ==
    LET temp == IF temperature < 0 THEN temperature * (-1) ELSE temperature
        decimal == bcd(temp)
    IN  << <<"set_glyph", 0, 0, FALSE>>,
           <<"set_glyph", \h63, 3, FALSE>>,
           <<"set_colon", FALSE>> >>
        \o (IF temperature < 0
            THEN << <<"set_character", Str("-"), 0, FALSE>> >>
            ELSE <<>>)
        \o << <<"set_number", BitAnd(decimal, \h0F), 2, FALSE>>,
              IF temperature < 10
              THEN <<"set_number", 0, 1, FALSE>>
              ELSE <<"set_number", Shr(decimal, 4), 1, FALSE>> >>

\* display_clock() of the matrix clock
mat_display_clock(p, t) ==
    LET mode == p["mode"]
        h == clock_hour(p, t)
        decimal == bcd(h.hour)
        first_digit == IF IsFalse(mode) /\ h.hour < 10 THEN 10 ELSE Shr(decimal, 4)
        minutes == bcd(Minute(t))
    IN  << <<"set_digit", 10, 13>>,
           <<"set_digit", first_digit, 0>>,
           <<"set_digit", BitAnd(decimal, \h0F), 4>>,
           <<"set_digit", Shr(minutes, 4), 8>>,
           <<"set_digit", BitAnd(minutes, \h0F), 12>> >>
        \o (IF IsFalse(mode)
            THEN << <<"plot", 15, 0, IF h.is_pm THEN 1 ELSE 0>> >>
            ELSE <<>>)

\* display_date() of the matrix clock
mat_display_date(t) ==
    LET now_month == t[2]
        now_day == t[3]
        decimal == bcd(now_day)
        months == bcd(now_month)
    IN  << <<"set_digit", 10, 13>>,
           IF now_day < 10 THEN <<"set_digit", 10, 0>>
           ELSE <<"set_digit", Shr(decimal, 4), 0>>,
           <<"set_digit", BitAnd(decimal, \h0F), 4>>,
           IF now_month < 10 THEN <<"set_digit", 10, 8>>
           ELSE <<"set_digit", Shr(months, 4), 8>>,
           <<"set_digit", BitAnd(months, \h0F), 12>> >>

\* display_temperature() of the matrix clock
mat_display_temperature(temperature) ==
    LET temp == IF temperature < 0 THEN temperature * (-1) ELSE temperature
        decimal == bcd(temp)
    IN  << <<"clear">>,
           <<"set_icon", <<\h40, \h1C, \h22, \h14>>, 12>> >>
        \o (IF temperature < 0
            THEN << <<"set_icon", <<\h63, \h63, \h63>>, 0>> >>
            ELSE <<>>)
        \o << <<"set_digit", BitAnd(decimal, \h0F), 8>>,
              IF temperature < 10 THEN <<"set_digit", 0, 4>>
              ELSE <<"set_digit", Shr(decimal, 4), 4>> >>

\* faces: display_clock, then display_date and display_temperature as the
\* preferences ask
faces(p) ==
    <<"display_clock">>
        \o (IF Truthy(p["show_date"]) THEN <<"display_date">> ELSE <<>>)
        \o (IF Truthy(p["show_temp"]) THEN <<"display_temperature">> ELSE <<>>)

\* the calls of a face
face_calls(display, face, p, t, connected, temperature) ==
    CASE face = "display_clock" ->
            (IF display = "segment" THEN seg_display_clock(p, t, connected)
             ELSE mat_display_clock(p, t))
      [] face = "display_date" ->
            (IF display = "segment" THEN seg_display_date(t, connected)
             ELSE mat_display_date(t))
      [] face = "display_temperature" ->
            (IF display = "segment" THEN seg_display_temperature(temperature)
             ELSE mat_display_temperature(temperature))

----------------------------------------------------------------------------
(* The 1.4.0 ESP32 clocks: featherclock(), connect(), initial_connect() and
   clock().  kind tells which of the two programs runs.  A step runs the
   program to its next read of the network state after a wait or a frame *)

\* set_brightness(): 'brightness < 0' and 'CMD | brightness' raise TypeError
\* for a value that is no integer
set_brightness_raises(brightness) == brightness[1] \notin {"int", "bool"}

\* draw() after the calls of a list: the buffer, the frame written and the
\* exception that ended the calls before the draw
Show(buf, tx, calls) ==
    LET Frame(b) == [buffer |-> b, tx |-> render_tx(map, b, tx), exc |-> ""]
        Drawn(r) ==
            IF r.exc # "" THEN [buffer |-> r.buffer, tx |-> tx, exc |-> r.exc]
            ELSE Frame(IF kind = "segment"
                       THEN segment_draw_buffer(r.buffer, is_rotated)
                       ELSE r.buffer)
    IN  Drawn(Run(buf, calls, 1))

\* connect(): the frame drawn before the network is asked
connect_start ==
    IF kind = "matrix" THEN << <<"plot", 15, 0, 1>> >> ELSE <<>>

\* connect(): the mark flashed at a poll
connect_flash(lit) ==
    IF kind = "matrix" THEN << <<"plot", 15, 0, IF lit = TRUE THEN 0 ELSE 1>> >>
    ELSE << <<"set_glyph", \h39, 3, lit>> >>

\* connect(): the frame drawn when the polls are given up, and by the segment
\* clock when the network is connected
connect_end ==
    IF kind = "matrix" THEN << <<"plot", 15, 0, 0>> >>
    ELSE << <<"set_glyph", \h39, 3, FALSE>> >>

gives_up_Late(count) == count > 121

\* connect(): if con_count > 120
gives_up(count) == count > 120

\* where connect() returns to
AfterConnect ==
    [p \in {"initial_connect/connect", "clock/connect"} |->
        IF p = "clock/connect" THEN "clock/connected" ELSE "initial_connect"]

\* OpenMeteo._check_coords(): float() of each, not 999.0, within range; the
\* coordinates are kept in tenths of a degree
check_coords(latitude, longitude) ==
    /\ longitude[1] \in {"float", "int", "bool"}
    /\ latitude[1] \in {"float", "int", "bool"}
    /\ longitude[1] = "bool" \/ longitude[2] # 9990
    /\ latitude[1] = "bool" \/ latitude[2] # 9990
    /\ latitude[1] = "bool" \/ (latitude[2] <= 900 /\ latitude[2] >= -900)
    /\ longitude[1] = "bool" \/ (longitude[2] <= 1800 /\ longitude[2] >= -1800)

\* what requests.get() and _process_response() can give: a forecast, an
\* error of the server, and an exception of requests.get()
Responses == {<<"data", -5>>, <<"err">>, <<"raise">>}

\* request_forecast()
request_forecast(latitude, longitude, response) ==
    IF ~ check_coords(latitude, longitude) THEN <<"error">> ELSE response

\* request_forecast() and process_forecast(): saved_temp and the exception
\* that leaves them
process_forecast(temperature, forecast) ==
    CASE forecast[1] = "data" -> [saved_temp |-> forecast[2], exc |-> ""]
      [] forecast[1] = "err" -> [saved_temp |-> temperature, exc |-> ""]
      [] forecast[1] = "error" -> [saved_temp |-> temperature, exc |-> "KeyError"]
      [] forecast[1] = "raise" -> [saved_temp |-> temperature, exc |-> "OSError"]


\* featherclock() after load_prefs(): the display is made, the brightness
\* set, 'SYNC' shown, and initial_connect() calls connect(), which draws its
\* first frame and asks the network
Setup ==
    /\ pc = "loaded"
    /\ IF set_brightness_raises(prefs["bright"])
       THEN /\ pc' = "crashed"
            /\ UNCHANGED <<buffer, tx_buffer, con_count, state>>
       ELSE LET size == IF kind = "segment" THEN 16 ELSE 32
                sync == IF kind = "segment" THEN seg_sync_text(Zeros(size))
                        ELSE mat_sync_text(Zeros(size), is_inverse)
            IN  \E shown \in {Show(sync, Zeros(size + 1), <<>>)} :
                \E start \in {Show(shown.buffer, shown.tx, connect_start)} :
                \E end \in {Show(start.buffer, start.tx, connect_end)} :
                /\ con_count' = 0
                /\ state' = TRUE
                /\ IF ~ wout
                   THEN /\ buffer' = start.buffer
                        /\ tx_buffer' = start.tx
                        /\ pc' = "initial_connect/connect"
                   ELSE /\ buffer' = IF kind = "segment" THEN end.buffer ELSE start.buffer
                        /\ tx_buffer' = IF kind = "segment" THEN end.tx ELSE start.tx
                        /\ pc' = "initial_connect"
    /\ rtc_call' = "none"
    /\ UNCHANGED <<arg, ret, kind, map, is_rotated, use_uppercase, is_inverse, last,
                   prev, nops>>
    /\ UNCHANGED <<prefs, wout, clock_now, timecheck, flipped, received, face_index,
                   saved_temp, looped>>

\* connect(): 'while not wout.isconnected()' and one pass of its body: half
\* a second of sleep, the mark flashed, the count; the last poll draws the
\* mark off and returns.  The locals of connect() are kept until its caller
\* has gone on
Poll ==
    /\ pc \in DOMAIN AfterConnect
    /\ IF wout
       THEN \E end \in {Show(buffer, tx_buffer, connect_end)} :
                /\ buffer' = IF kind = "segment" THEN end.buffer ELSE buffer
                /\ tx_buffer' = IF kind = "segment" THEN end.tx ELSE tx_buffer
                /\ pc' = AfterConnect[pc]
                /\ UNCHANGED <<con_count, state>>
       ELSE \E flash \in {Show(buffer, tx_buffer, connect_flash(state))} :
                /\ state' = ~ state
                /\ con_count' = con_count + 1
                /\ IF gives_up(con_count + 1)
                   THEN \E end \in {Show(flash.buffer, flash.tx, connect_end)} :
                        /\ buffer' = end.buffer
                        /\ tx_buffer' = end.tx
                        /\ pc' = AfterConnect[pc]
                   ELSE /\ buffer' = flash.buffer
                        /\ tx_buffer' = flash.tx
                        /\ pc' = pc
    /\ rtc_call' = "none"
    /\ UNCHANGED <<arg, ret, kind, map, is_rotated, use_uppercase, is_inverse, last,
                   prev, nops>>
    /\ UNCHANGED <<prefs, wout, clock_now, timecheck, flipped, received, face_index,
                   saved_temp, looped>>

\* initial_connect() after connect(): the RTC is set and the forecast asked
\* for if the network is connected; the display is cleared and clock()
\* begins.  set_rtc() returns True if get_time() gave a time
InitialConnect ==
    /\ pc = "initial_connect"
    /\ \E got_time \in BOOLEAN, response \in Responses :
          LET asked == wout /\ Truthy(prefs["show_temp"])
              forecast == request_forecast(prefs["lat"], prefs["lng"], response)
              r == IF asked THEN process_forecast(saved_temp, forecast)
                   ELSE [saved_temp |-> saved_temp, exc |-> ""]
          IN  /\ wout \/ got_time = FALSE
              /\ asked \/ response = <<"err">>
              /\ rtc_call' = IF wout THEN (IF got_time THEN "True" ELSE "False") ELSE "none"
              /\ saved_temp' = r.saved_temp
              /\ IF r.exc # ""
                 THEN /\ pc' = "crashed"
                      /\ UNCHANGED <<buffer, timecheck>>
                 ELSE /\ pc' = "clock"
                      /\ buffer' = clear(buffer)
                      /\ timecheck' = got_time
    /\ flipped' = FALSE
    /\ received' = FALSE
    /\ face_index' = 0
    /\ looped' = FALSE
    /\ con_count' = 0
    /\ state' = TRUE
    /\ UNCHANGED <<arg, ret, kind, map, tx_buffer, is_rotated, use_uppercase,
                   is_inverse, last, prev, nops>>
    /\ UNCHANGED <<prefs, wout, clock_now>>

\* The network connects or drops while the program waits or runs
Network ==
    /\ pc \in {"loaded", "initial_connect/connect", "initial_connect", "clock",
               "clock/sync", "clock/connect", "clock/connected"}
    /\ wout' = ~ wout
    /\ UNCHANGED <<pc, arg, ret>>
    /\ UNCHANGED dispVars
    /\ UNCHANGED <<prefs, clock_now, timecheck, flipped, received, face_index,
                   con_count, state, saved_temp, looped, rtc_call>>


\* Instants gmtime() gives: power-on; a summer day at minute 7 of the
\* forecast, in the sync window at noon and after it; the night BST ends.
\* Passes are faster than the clock: an instant can be read again
Times ==
    {PowerOn, <<2025, 6, 15, 11, 7, 3>>, <<2025, 6, 15, 12, 5, 4>>,
     <<2025, 6, 15, 12, 8, 7>>, <<2025, 10, 26, 23, 59, 59>>}

\* a number that grows with the time
Stamp(t) == (((((t[1] - 2000) * 12 + t[2]) * 31 + t[3]) * 24 + t[4]) * 60 + t[5]) * 60 + t[6]

\* gmtime(): the RTC runs on from the time read last, or from the time
\* set_rtc() has just set
GmTimes == IF rtc_call = "True" THEN Times
           ELSE {t \in Times : Stamp(t) >= Stamp(clock_now)}

flip_time == 3

\* the flag reset whatever the hour
hour_reset_EveryHour(t, check) == FALSE

\* clock(): if now_hour % 6 > 0: timecheck = False
hour_reset(t, check) == IF Hour(t) % 6 > 0 THEN FALSE ELSE check

\* clock(): the RTC is to be set again
sync_due(t, check) == Hour(t) % 6 = 0 /\ (1 < Minute(t) /\ Minute(t) < 8) /\ check = FALSE

\* the face flipped at every pass of a run
flip_index_Again(t, done, i, n) ==
    IF Second(t) % flip_time = 0 THEN (i + 1) % n ELSE i

\* clock(): if now_sec % flip_time == 0: if not flipped:
\* index = (index + 1) % len(faces)
flip_index(t, done, i, n) ==
    IF Second(t) % flip_time = 0 /\ ~ done THEN (i + 1) % n ELSE i

\* clock(): the top of a pass: gmtime(), the flip of the face, the face and
\* its draw(), and the marker of the matrix clock
Pass ==
    /\ pc = "clock"
    /\ \E t \in GmTimes :
          LET fs == faces(prefs)
              i == flip_index(t, flipped, face_index, Len(fs))
          IN  \E shown \in {Show(buffer, tx_buffer,
                                   face_calls(kind, fs[i + 1], prefs, t, wout,
                                              saved_temp))} :
              \E marked \in {IF kind = "matrix"
                              THEN plot(shown.buffer, 15, 7, IF wout THEN 0 ELSE 1,
                                        FALSE)
                              ELSE Returns(shown.buffer, "none")} :
              /\ clock_now' = t
              /\ face_index' = i
              /\ flipped' = (Second(t) % flip_time = 0)
              /\ tx_buffer' = shown.tx
              /\ buffer' = marked.buffer
              /\ pc' = IF shown.exc = "" /\ marked.exc = "" THEN "clock/sync"
                       ELSE "crashed"
    /\ rtc_call' = "none"
    /\ UNCHANGED <<arg, ret, kind, map, is_rotated, use_uppercase, is_inverse, last,
                   prev, nops>>
    /\ looped' = TRUE
    /\ UNCHANGED <<prefs, wout, timecheck, received, con_count, state, saved_temp>>

\* clock(): the rest of a pass: set_rtc() if it is called, the reset of
\* timecheck, the forecast at minute 7 and the reset of received
Rest(called, got_time, response) ==
    LET t == clock_now
        asked == Truthy(prefs["show_temp"]) /\ Minute(t) = 7 /\ ~ received
        forecast == request_forecast(prefs["lat"], prefs["lng"], response)
        r == IF asked THEN process_forecast(saved_temp, forecast)
             ELSE [saved_temp |-> saved_temp, exc |-> ""]
    IN  /\ called \/ got_time = FALSE
        /\ asked \/ response = <<"err">>
        /\ rtc_call' = IF called THEN (IF got_time THEN "True" ELSE "False") ELSE "none"
        /\ timecheck' = hour_reset(t, IF called THEN got_time ELSE timecheck)
        /\ saved_temp' = r.saved_temp
        /\ IF r.exc # ""
           THEN pc' = "crashed" /\ UNCHANGED received
           ELSE /\ pc' = "clock"
                /\ received' = IF Minute(t) # 7 THEN FALSE
                               ELSE IF asked THEN TRUE ELSE received
        /\ UNCHANGED <<arg, ret>>
        /\ UNCHANGED dispVars
        /\ con_count' = 0
        /\ state' = TRUE
        /\ UNCHANGED <<prefs, wout, clock_now, flipped, face_index, looped>>

\* clock(): 'if now_hour % 6 == 0 and (1 < now_min < 8) and timecheck is
\* False': connect() is called if the network is not connected, and draws
\* its first frame
Sync ==
    /\ pc = "clock/sync"
    /\ IF sync_due(clock_now, timecheck) /\ ~ wout
       THEN \E start \in {Show(buffer, tx_buffer, connect_start)} :
                /\ con_count' = 0
                /\ state' = TRUE
                /\ buffer' = start.buffer
                /\ tx_buffer' = start.tx
                /\ pc' = "clock/connect"
                /\ rtc_call' = "none"
                /\ UNCHANGED <<arg, ret, kind, map, is_rotated, use_uppercase,
                               is_inverse, last, prev, nops>>
                /\ UNCHANGED <<prefs, wout, clock_now, timecheck, flipped, received,
                               face_index, saved_temp, looped>>
       ELSE \E got_time \in BOOLEAN, response \in Responses :
                Rest(sync_due(clock_now, timecheck), got_time, response)

\* clock() after connect(): if wout.isconnected(): timecheck = set_rtc(59)
Resume ==
    /\ pc = "clock/connected"
    /\ \E got_time \in BOOLEAN, response \in Responses : Rest(wout, got_time, response)

(* Specification of the start: featherclock() up to the call of clock() *)

\* prefs.json: none, one that asks for the 12-hour clock and the
\* temperature, one that asks for the temperature at latitude 95.0, one that
\* turns the date and the colon off, one with a brightness that is no
\* number, and one that is no object
BootFiles ==
    {<<"missing">>,
     <<"object", [mode |-> Bool(FALSE), show_temp |-> Bool(TRUE),
                  lat |-> Float(515), lng |-> Float(-1)]>>,
     <<"object", [show_temp |-> Bool(TRUE), lat |-> Float(950), lng |-> Float(0)]>>,
     <<"object", [show_date |-> Bool(FALSE), colon |-> Bool(FALSE)]>>,
     <<"object", [bright |-> Text("max")]>>,
     <<"number", 5>>}

InitBoot ==
    /\ pc = "boot"
    /\ arg \in BootFiles
    /\ ret = ""
    /\ prefs = <<>>
    /\ wout \in BOOLEAN
    /\ clock_now = PowerOn
    /\ timecheck = FALSE
    /\ flipped = FALSE
    /\ received = FALSE
    /\ face_index = 0
    /\ con_count = 0
    /\ state = TRUE
    /\ saved_temp = 0
    /\ looped = FALSE
    /\ rtc_call = "none"
    /\ kind \in {"segment", "matrix"}
    /\ map = IdentityMap
    /\ buffer = <<>>
    /\ tx_buffer = <<>>
    /\ is_rotated = FALSE
    /\ use_uppercase = FALSE
    /\ is_inverse = FALSE
    /\ last = NoCall
    /\ prev = NoCall
    /\ nops = 0

NextBoot ==
    \/ DefaultPrefs /\ UNCHANGED dispVars
    \/ LoadPrefs /\ UNCHANGED dispVars
    \/ Setup
    \/ Poll
    \/ InitialConnect
    \/ Network

SpecBoot == InitBoot /\ [][NextBoot]_vars

\* The positions of the program
Positions ==
    {"boot", "load_prefs", "loaded", "initial_connect/connect", "initial_connect",
     "clock", "clock/sync", "clock/connect", "clock/connected", "crashed"}

\* A step of the program before clock(): it goes on to another position or
\* to another poll
Step ==
    /\ pc \in {"boot", "load_prefs", "loaded", "initial_connect/connect",
               "initial_connect"}
    /\ pc' \in Positions
    /\ con_count' \in 0 .. 122

\* sleep() returns and the program goes on; the network owes nothing
SpecBootFair == SpecBoot /\ WF_<<pc, con_count>>(Step)

(* Specification of the clock: the start and the passes of clock() *)

NextClock ==
    \/ DefaultPrefs /\ UNCHANGED dispVars
    \/ LoadPrefs /\ UNCHANGED dispVars
    \/ Setup
    \/ Poll
    \/ InitialConnect
    \/ Network
    \/ Pass
    \/ Sync
    \/ Resume

SpecClock == InitBoot /\ [][NextClock]_vars

----------------------------------------------------------------------------
(* The calls and the layout the properties speak about *)

RenderOps == {"draw", "update", "sync_text"}

SegmentWriteOps == {"set_glyph", "set_number", "set_character"}

\* the words 0 .. len/2 - 1 of a buffer
WordsOf(buf) == 0 .. (BufLen(buf) \div 2) - 1

\* position of a symbol in the charset: 0-9, a-f, minus, degree, space
SymbolIndex(s) ==
    IF s = Str("-") THEN 16
    ELSE IF s = Str("deg") THEN 17
    ELSE IF s = Str(" ") THEN 18
    ELSE IF s[1] \in 48 .. 57 THEN s[1] - 48
    ELSE 10 + (s[1] - 97)

\* The FeatherWing keeps columns 0..7 in the even bytes 16..30 and columns
\* 8..15 in the odd bytes 17..31
ColumnByte(x) == IF x < 8 THEN 16 + 2 * x ELSE 2 * x + 1

Pixel(buf, x, y) == Bit(buf[ColumnByte(x)], y)

\* the indices at which two buffers differ
Changed(old, new) == {i \in DOMAIN old : new[i] # old[i]}

----------------------------------------------------------------------------
\* C2: the frame _render writes (through draw, update or sync_text) is one
\* byte longer than the buffer, starts with the command byte 0x00, and its
\* bytes 2k+1 and 2k+2 are the low and the high byte of
\* _map_word(buffer[2k] | buffer[2k+1] << 8); with the identity map the
\* frame after the command byte is the buffer, byte for byte.
C2_RenderFrame ==
    (last.op \in RenderOps) =>
        /\ DOMAIN tx_buffer = 0 .. BufLen(buffer)
        /\ tx_buffer[0] = \h00
        /\ \A k \in WordsOf(buffer) :
            LET word == _map_word(map, buffer[2 * k] + 256 * buffer[2 * k + 1])
            IN  /\ tx_buffer[2 * k + 1] = word % 256
                /\ tx_buffer[2 * k + 2] = word \div 256
        /\ (map = IdentityMap =>
                \A i \in DOMAIN buffer : tx_buffer[i + 1] = buffer[i])

\* a matrix showing 'SYNC' was drawn through the map [1,0,2,...,15]: the
\* frame differs from the buffer
C2_Witness ==
    /\ last.op = "draw" /\ kind = "matrix" /\ map = Swap01Map
    /\ buffer = mat_sync_text(Zeros(32), FALSE)
    /\ \E i \in DOMAIN buffer : tx_buffer[i + 1] # buffer[i]

\* C4: after set_character(s, d, has_dot) with s in the segment charset and
\* d in 0..3 the byte buffer[POS[d]] is the charset code of s, with bit 0x80
\* set exactly if has_dot, whatever the byte held before; the call does not
\* raise.  set_character('0', 0, True) leaves 0xBF at offset 0.
C4_SetCharacterWritesCode ==
    (/\ last.op = "set_character"
     /\ last.args[1] \in SegSymbols
     /\ last.args[2] \in 0 .. 3) =>
        LET s == last.args[1]
            d == last.args[2]
            has_dot == last.args[3]
            code == (IF use_uppercase THEN CHARSET_UC ELSE CHARSET)[SymbolIndex(s)]
        IN  /\ last.exc = ""
            /\ code < \h80
            /\ buffer[POS[d]] = code + (IF has_dot THEN \h80 ELSE 0)
            /\ (Bit(buffer[POS[d]], 7) = 1) <=> has_dot
            /\ (s = <<48>> /\ d = 0 /\ has_dot => buffer[0] = \hBF)

\* set_character('0', 0, True) has overwritten the 'S' of 'SYNC'
C4_Witness ==
    /\ last.op = "set_character" /\ last.args = << <<48>>, 0, TRUE >>
    /\ last.before[0] = \h6D
    /\ buffer[0] = \hBF

\* C1: for every v in 0..99 bcd(v) is the packed BCD byte of v: the high
\* nibble is v div 10, the low nibble is v mod 10 (so bcd(v) = v for the
\* digits 0..9), and unpacking the two nibbles gives v back.
C1_BcdPacks ==
    (pc = "done" /\ arg \in 0 .. 99) =>
        /\ ret = BitOr(Shl(arg \div 10, 4), (arg % 10))
        /\ Shr(ret, 4) \in 0 .. 9
        /\ BitAnd(ret, \hF) \in 0 .. 9
        /\ Shr(ret, 4) * 10 + BitAnd(ret, \hF) = arg
        /\ (arg \in 0 .. 9 => ret = arg)

\* bcd(59) has returned 0x59
C1_Witness == pc = "done" /\ arg = 59 /\ ret = \h59

\* C3: with a map that is a permutation of 0..15, bit map[i] of
\* _map_word(w) is bit i of w for every i; the identity map returns w and
\* the map [1,0,2,...,15] turns 0b01 into 0b10.
C3_MapWordPermutes ==
    (pc = "done" /\ IsPermutation(map)) =>
        /\ \A i \in 0 .. 15 : Bit(ret, map[i]) = Bit(arg, i)
        /\ ret \in 0 .. 65535
        /\ (map = IdentityMap => ret = arg)
        /\ (map = Swap01Map /\ arg = 1 => ret = 2)

\* _map_word(0b01) under [1,0,2,...,15] has returned 0b10
C3_Witness == pc = "done" /\ map = Swap01Map /\ arg = 1 /\ ret = 2

\* the arguments of the last call by name
LastDigit == last.args[2]

LastX == last.args[1]

LastY == last.args[2]

\* the columns 0..15 an icon of the last set_icon() call lies on
LastIconColumns ==
    {c \in 0 .. width - 1 :
        last.args[2] <= c /\ c < last.args[2] + Len(last.args[1])}

Rejected == last.exc = "AssertionError" /\ buffer = last.before

\* C5: a buffer mutator touches only the bytes of the position it addresses:
\* set_glyph, set_number and set_character on digit d change at most
\* buffer[POS[d]] (offset 0, 2, 6 or 8), set_colon at most offset 4, plot(x, y)
\* at most bit y of the byte of column x, and set_icon(glyph, c) at most the
\* bytes of the columns c .. c + len(glyph) - 1; every other byte keeps its
\* value and the buffer keeps its length.
C5_TouchesOwnedBytes ==
    /\ (last.op # "none" => DOMAIN buffer = DOMAIN last.before)
    /\ (last.op \in SegmentWriteOps =>
            \A i \in Changed(last.before, buffer) :
                /\ LastDigit \in 0 .. 3
                /\ i = POS[LastDigit]
                /\ i = <<0, 2, 6, 8>>[LastDigit + 1])
    /\ (last.op = "set_colon" => Changed(last.before, buffer) \subseteq {4})
    /\ (last.op = "plot" =>
            \A i \in Changed(last.before, buffer) :
                /\ LastX \in 0 .. 15 /\ LastY \in 0 .. 7
                /\ i = ColumnByte(LastX)
                /\ \A n \in (0 .. 7) \ {LastY} :
                    Bit(buffer[i], n) = Bit(last.before[i], n))
    /\ (last.op = "set_icon" =>
            Changed(last.before, buffer) \subseteq
                {ColumnByte(c) : c \in LastIconColumns})
    /\ (last.op = "is_set" => buffer = last.before)

\* set_glyph(0x49, 1, True) on 'SYNC' has changed the second digit alone
C5_Witness ==
    /\ last.op = "set_glyph" /\ last.args = <<\h49, 1, TRUE>>
    /\ last.before = seg_sync_text(Zeros(16))
    /\ buffer[2] = \hC9
    /\ Changed(last.before, buffer) = {2}

Exchanged(a, b) ==
    /\ \A n \in 0 .. 2 : Bit(b, n + 3) = Bit(a, n) /\ Bit(b, n) = Bit(a, n + 3)
    /\ Bit(b, 6) = Bit(a, 6)
    /\ Bit(b, 7) = Bit(a, 7)
    /\ b \in 0 .. 255

\* C7: plot(x, y, ink, xor=True) on a pixel of the matrix, ink 0 or 1,
\* inverts the pixel when it has colour ink and sets it to ink otherwise;
\* plot(5, 3, 1, True) sets a clear pixel, and a second call with the same
\* arguments brings the pixel, and the buffer, back.
C7_XorPlotToggles ==
    (/\ last.op = "plot" /\ last.args[4] = TRUE
     /\ LastX \in 0 .. 15 /\ LastY \in 0 .. 7 /\ last.args[3] \in {0, 1}) =>
        LET ink == last.args[3]
            was == Pixel(last.before, LastX, LastY)
            now == Pixel(buffer, LastX, LastY)
        IN  /\ last.exc = ""
            /\ now = (IF was = ink THEN 1 - ink ELSE ink)
            /\ (LastX = 5 /\ LastY = 3 /\ ink = 1 /\ was = 0 => now = 1)
            /\ (prev.op = "plot" /\ prev.args = last.args =>
                    /\ now = Pixel(prev.before, LastX, LastY)
                    /\ buffer = prev.before)

\* plot(5, 3, 1, True) twice on the blank matrix: set, then clear again
C7_Witness ==
    /\ last.op = "plot" /\ last.args = <<5, 3, 1, TRUE>>
    /\ prev.op = "plot" /\ prev.args = <<5, 3, 1, TRUE>>
    /\ Pixel(prev.before, 5, 3) = 0
    /\ Pixel(last.before, 5, 3) = 1
    /\ Pixel(buffer, 5, 3) = 0

\* C8: set_inverse() replaces every buffer byte b by 255 - b and flips
\* is_inverse; a second set_inverse() right after it restores every byte and
\* the flag.
C8_SetInverseComplements ==
    (last.op = "set_inverse") =>
        /\ last.exc = ""
        /\ DOMAIN buffer = DOMAIN last.before
        /\ \A i \in DOMAIN buffer : buffer[i] = 255 - last.before[i]
        /\ is_inverse = ~ last.was_inverse
        /\ (prev.op = "set_inverse" =>
                buffer = prev.before /\ is_inverse = prev.was_inverse)

\* 'SYNC' on the matrix was inverted and inverted back
C8_Witness ==
    /\ last.op = "set_inverse" /\ prev.op = "set_inverse"
    /\ prev.before = mat_sync_text(Zeros(32), FALSE)
    /\ last.before[16] = \h9D /\ last.was_inverse
    /\ buffer[16] = \h62 /\ ~ is_inverse

\* C9: draw() of a rotated segment display puts into every digit d the byte
\* of digit 3 - d with bits 0-2 and bits 3-5 exchanged and bits 6 and 7
\* kept, and leaves the other bytes alone; the transform is an involution:
\* after a second draw() every digit is back in its place with its bits.
C9_RotationInvolution ==
    (kind = "segment" /\ last.op = "draw" /\ is_rotated) =>
        /\ \A d \in 0 .. 3 : Exchanged(last.before[POS[3 - d]], buffer[POS[d]])
        /\ Changed(last.before, buffer) \subseteq {0, 2, 6, 8}
        /\ (prev.op = "draw" => buffer = prev.before)

\* 'SYNC' on a rotated segment display was drawn twice: the first draw
\* turned the buffer, the second turned it back
C9_Witness ==
    /\ kind = "segment" /\ is_rotated
    /\ last.op = "draw" /\ prev.op = "draw"
    /\ prev.before = seg_sync_text(Zeros(16))
    /\ last.before # prev.before
    /\ last.before[0] = \h0F
    /\ buffer = prev.before

\* C10 as claimed: draw() only reads the buffer, in every mode and with
\* every map: the buffer after draw() is the buffer before it, and a draw()
\* right after a draw() transmits the same frame.
C10_DrawOnlyReads ==
    (last.op = "draw") =>
        /\ buffer = last.before
        /\ (prev.op = "draw" =>
                tx_buffer = render_tx(map, prev.before, Zeros(BufLen(buffer) + 1)))

\* days from 1 January of FirstYear, a Saturday, to a date
DayNumber(date) ==
    LET years == FirstYear .. date[1] - 1
        months == 1 .. date[2] - 1
        SumDays[n \in 0 .. 12] ==
            IF n = 0 THEN 0 ELSE SumDays[n - 1] + DaysIn(date[1], n)
    IN  365 * Cardinality(years)
            + Cardinality({y \in years : is_leap_year(y)})
            + SumDays[date[2] - 1] + (date[3] - 1)

\* the day of the week of a date, 0 (Monday) to 6 (Sunday)
Weekday(date) == (5 + DayNumber(date)) % 7

\* the day of the month of the last Sunday of a month of 31 days
LastSunday(year, month) ==
    CHOOSE d \in 25 .. 31 : Weekday(<<year, month, d>>) = 6

\* C16: for every valid date of 2000..2099 bst_check(date) is True exactly
\* when the date lies from the last Sunday of March, inclusive, to the last
\* Sunday of October, exclusive, of its year.
C16_BstPeriod ==
    (pc = "bst_check") =>
        LET year == arg[1]
            month == arg[2]
            day == arg[3]
            summer == \/ (month > 3 /\ month < 10)
                      \/ (month = 3 /\ day >= LastSunday(year, 3))
                      \/ (month = 10 /\ day < LastSunday(year, 10))
        IN  ret = summer

\* bst_check() of 30 March 2025, the last Sunday of March, has returned True
C16_Witness ==
    /\ pc = "bst_check" /\ arg = <<2025, 3, 30>> /\ ret = TRUE
    /\ LastSunday(2025, 3) = 30

\* C19 as claimed: for every valid date day_of_week(day, month, year)
\* returns the day of the week numbered 0 (Monday) to 6 (Sunday).
C19_DayOfWeekMondayFirst ==
    (pc = "day_of_week") => ret = Weekday(arg)

\* the columns 0..15 the glyph of the last matrix set_character() lies on
LastCharColumns ==
    {c \in 0 .. width - 1 : last.args[2] <= c /\ c < last.args[2] + 3}

\* C17 as claimed: matrix set_character(code, column) with a code in
\* 32..127 that has no entry in the glyph table (the table starts at code 32
\* and has 11 entries) falls back to the space glyph: the columns it writes
\* are blank, never the bitmap of another character.
C17_UnknownCodeIsBlank ==
    (/\ last.op = "matrix_set_character"
     /\ last.args[1] \in 32 + Cardinality(DOMAIN MAT_CHARSET) .. 127
     /\ last.args[2] \in 0 .. 15) =>
        /\ last.exc = ""
        /\ \A c \in LastCharColumns :
            buffer[ColumnByte(c)] = (IF last.was_inverse THEN \hFF ELSE \h00)

\* C18 as amended: segment set_character with a symbol whose lower-case
\* form is outside the charset (0-9, a-f, '-', ' ', 'deg') ends in an error
\* and changes no buffer byte; a symbol in upper case, 'DEG' included, is in
\* the charset: it is written as its lower-case form.
C18_UnknownSymbolRejected ==
    (last.op = "set_character") =>
        LET s == last.args[1]
            d == last.args[2]
        IN  /\ (lower(s) \notin SegSymbols =>
                    last.exc \in {"AssertionError", "TypeError"}
                        /\ buffer = last.before)
            /\ (lower(s) \in SegSymbols /\ d \in 0 .. 3 =>
                    /\ last.exc = ""
                    /\ buffer = set_character(last.before, use_uppercase, lower(s), d,
                                              last.args[3]).buffer)

\* set_character('g', 0) on 'SYNC' has raised and left 'SYNC'
C18_Witness ==
    /\ last.op = "set_character" /\ last.args = << <<103>>, 0, FALSE >>
    /\ last.exc = "AssertionError"
    /\ last.before = seg_sync_text(Zeros(16))
    /\ buffer = last.before

\* C18 as claimed: every symbol other than 0-9, a-f in either case, '-',
\* ' ' and 'deg' ends in an error and changes no buffer byte.
C18_OnlyListedSymbolsAccepted ==
    (/\ last.op = "set_character"
     /\ last.args[1] \notin
            SegSymbols \cup {<<c>> : c \in 65 .. 70}) =>
        last.exc # "" /\ buffer = last.before

\* a value of the type, and in the range, the spec gives for a key
WellFormed(key, value) ==
    CASE key = "bright" -> value[1] = "int" /\ value[2] \in 0 .. 15
      [] key \in {"lat", "lng"} -> value[1] \in {"float", "int"}
      [] OTHER -> value[1] = "bool"

\* a preferences object has been loaded
Loaded == pc = "loaded" /\ arg[1] = "object"

\* C13: a load changes only preferences whose keys are in the object: keys
\* the clock does not know never get into prefs, and every preference whose
\* key is absent keeps the value it had before the load, its default.
C13_LoadMerges ==
    Loaded =>
        /\ DOMAIN prefs = DOMAIN default_prefs
        /\ "colour" \notin DOMAIN prefs
        /\ \A key \in DOMAIN prefs :
            key \notin DOMAIN arg[2] => prefs[key] = default_prefs[key]

\* {"mode": false, "colour": "red"} was loaded: 12-hour mode, nothing else
C13_Witness ==
    /\ Loaded
    /\ arg[2] = [k \in {"mode", "colour"} |->
                    IF k = "mode" THEN Bool(FALSE) ELSE Text("red")]
    /\ prefs = Put(default_prefs, "mode", Bool(FALSE))

\* C14 as claimed: a well-formed value given for a recognized key is the
\* value of that preference after set_prefs, whatever other keys are there.
C14_GivenValueIsSet ==
    Loaded =>
        \A key \in RecognizedKeys :
            (key \in DOMAIN arg[2] /\ WellFormed(key, arg[2][key])) =>
                prefs[key] = arg[2][key]

\* C15 as claimed: a malformed value is skipped and the preference keeps
\* its value; after any load every preference holds a well-formed value.
C15_MalformedIsSkipped ==
    Loaded =>
        \A key \in RecognizedKeys :
            /\ (key \in DOMAIN arg[2] /\ ~ WellFormed(key, arg[2][key])) =>
                    prefs[key] = default_prefs[key]
            /\ WellFormed(key, prefs[key])

\* The clock has entered clock() on a cleared display, set_rtc() not called
EnteredUnset ==
    /\ pc = "clock"
    /\ buffer = Zeros(BufLen(buffer))
    /\ rtc_call = "none"
    /\ timecheck = FALSE

\* C12: connect() always returns: it never polls more than 121 times, and
\* when the network never reports connected it gives up and initial_connect()
\* clears the display and enters clock() without a call of set_rtc()
C12_ConnectReturns ==
    /\ [](con_count <= 121)
    /\ [](pc \in DOMAIN AfterConnect => <>(pc \notin DOMAIN AfterConnect))
    /\ [][pc = "initial_connect" /\ ~ wout /\ pc' # pc => EnteredUnset']_vars
    /\ ([](~ wout) => <>(pc = "crashed" \/ EnteredUnset))

\* connect() has given up after 121 polls and returned to initial_connect()
C12_Witness ==
    /\ pc = "initial_connect"
    /\ con_count = 121
    /\ ~ wout
    /\ tx_buffer[IF kind = "segment" THEN 9 ELSE 32] \in {\h39, \h00}

\* the rest of a pass of clock(): the step in which clock() calls set_rtc()
InLoop == pc \in {"clock/sync", "clock/connected"}

InWindow(t) == Hour(t) % 6 = 0 /\ 1 < Minute(t) /\ Minute(t) < 8

\* C20: in clock() set_rtc() is called only in minutes 2..7 of an hour
\* divisible by 6 and only while timecheck is False; a call that returns True
\* in such an hour leaves timecheck True, and timecheck stays True, so that no
\* further call is made, until a pass has read an hour not divisible by 6
C20_ResyncOncePerVisit ==
    /\ [][InLoop /\ rtc_call' # "none" =>
            InWindow(clock_now) /\ timecheck = FALSE]_vars
    /\ [][InLoop /\ rtc_call' = "True" => timecheck' = TRUE]_vars
    /\ [][timecheck = TRUE /\ timecheck' = FALSE =>
            InLoop /\ Hour(clock_now) % 6 > 0]_vars
    /\ [][InLoop /\ timecheck = TRUE => rtc_call' = "none"]_vars

\* set_rtc() has returned True in a pass of clock() at 12:05
C20_Witness ==
    /\ pc = "clock"
    /\ rtc_call = "True"
    /\ timecheck = TRUE
    /\ clock_now # PowerOn
    /\ InWindow(clock_now)

\* the byte of a frame that holds the disconnected indicator in its bit 7:
\* the segment clock's digit 0 with its decimal point, the matrix clock's
\* column 15 with its pixel 7
IndicatorByte == IF kind = "segment" THEN 1 ELSE 32

\* C11: every frame a face of clock() writes while the network is not
\* connected has the disconnected indicator lit
C11_DisconnectedIndicatorLit ==
    [][pc = "clock" /\ pc' = "clock/sync" /\ ~ wout =>
            Bit(tx_buffer'[IndicatorByte], 7) = 1]_vars

\* the positions of the loop of clock()
LoopPositions == {"clock", "clock/sync", "clock/connect", "clock/connected"}

\* a pass of the loop: gmtime() is read, the face is chosen and drawn
IsPass == pc = "clock" /\ pc' \in {"clock/sync", "crashed"}

\* the faces the preferences enable, in the order time, date, temperature
EnabledFaces ==
    LET Enabled(f) == \/ f = "display_clock"
                      \/ f = "display_date" /\ Truthy(prefs["show_date"])
                      \/ f = "display_temperature" /\ Truthy(prefs["show_temp"])
    IN  SelectSeq(<<"display_clock", "display_date", "display_temperature">>, Enabled)

\* the second of an instant is a multiple of 3
OnFlipSecond(t) == t[6] % 3 = 0

\* the pass that begins a run of seconds that are multiples of 3 advances
\* the index by one, cyclically; another pass keeps it
FlipsAtRunStart ==
    IsPass =>
        LET begins == OnFlipSecond(clock_now') /\ ~ (looped /\ OnFlipSecond(clock_now))
        IN  face_index' = (IF begins THEN (face_index + 1) % Len(EnabledFaces)
                           ELSE face_index)

\* C21: in the loop of clock() the face index is an index of the enabled
\* faces (time, date, temperature, in this order); the pass that begins a run
\* of consecutive passes whose second is a multiple of 3 advances it by one,
\* cyclically; every other pass, the later passes of a run included, and
\* every other step of the loop leaves it as it is.
C21_FaceIndexFlips ==
    /\ [](pc \in LoopPositions =>
            /\ faces(prefs) = EnabledFaces
            /\ face_index \in 0 .. Len(EnabledFaces) - 1)
    /\ [][FlipsAtRunStart]_vars
    /\ [][~ IsPass /\ pc \in LoopPositions => face_index' = face_index]_vars

\* with the three faces enabled the third run of seconds has brought the
\* index back to the time
C21_Witness ==
    /\ pc = "clock/sync" /\ looped /\ OnFlipSecond(clock_now)
    /\ Len(EnabledFaces) = 3
    /\ face_index = 0

\* the step of the loop that asks for the forecast: minute 7, not yet asked
\* for in this minute, the temperature face enabled
LoopAsks ==
    /\ pc \in {"clock/sync", "clock/connected"} /\ pc' \in {"clock", "crashed"}
    /\ Truthy(prefs["show_temp"])
    /\ Minute(clock_now) = 7 /\ ~ received

\* C22 as claimed: when request_forecast rejects the coordinates of the
\* preferences (a latitude outside -90..90), process_forecast logs the error
\* and returns: saved_temp is unchanged, no exception escapes and the loop
\* of clock() goes on to its next pass.
C22_RejectedCoordinatesLogged ==
    [][LoopAsks /\ ~ check_coords(prefs["lat"], prefs["lng"]) =>
            pc' = "clock" /\ saved_temp' = saved_temp]_vars

----------------------------------------------------------------------------
(* clock-segment-pico-w.py: the main program, connect(), initial_connect()
   and clock().  clock() of experimental/clock-segment-rp2040.py computes the
   hour in the same way *)

\* default_prefs() of the Pico W clock
pico_default_prefs ==
    [k \in {"mode", "colon", "flash", "bright", "bst", "on", "url", "do_log"} |->
        CASE k = "bright" -> Integer(10)
          [] k = "url" -> Text("@AGENT")
          [] OTHER -> Bool(TRUE)]

\* set_prefs() of the Pico W clock
pico_set_prefs(p, prefs_data) ==
    LET p1 == Take(p, prefs_data, "mode")
        p2 == Take(p1, prefs_data, "colon")
        p3 == Take(p2, prefs_data, "flash")
        p4 == Take(p3, prefs_data, "bright")
        p5 == Take(p4, prefs_data, "on")
    IN  Take(p5, prefs_data, "do_log")

\* prefs.json of the Pico W clock: none, one that asks for the 12-hour
\* clock, one that turns the colon off
PicoFiles ==
    {<<"missing">>,
     <<"object", [mode |-> Bool(FALSE)]>>,
     <<"object", [colon |-> Bool(FALSE), bst |-> Bool(FALSE)]>>}

\* connect(): if con_count > 40
pico_gives_up(count) == count > 40

\* where connect() returns to
AfterPicoConnect ==
    [p \in {"pico_w/connect", "pico_w/clock/connect"} |->
        IF p = "pico_w/clock/connect" THEN "pico_w/clock/connected"
        ELSE "pico_w/initial_connect"]

\* clock(): the hour after 'if now_hour > 23: now_hour -= 23'
pico_now_hour(p, t) ==
    LET Wrapped(h1) == IF h1 > 23 THEN h1 - 23 ELSE h1
    IN  Wrapped(IF IsTrue(p["bst"]) /\ is_bst(t) = TRUE THEN Hour(t) + 1 ELSE Hour(t))

\* clock(): the calls that show the time
pico_clock_face(p, t, connected) ==
    LET mode == p["mode"]
        Face(now_hour) ==
            LET is_pm == now_hour > 11
                h2 == IF is_pm = TRUE THEN now_hour - 12 ELSE now_hour
                hour == IF IsFalse(mode) THEN (IF h2 = 0 THEN 12 ELSE h2) ELSE now_hour
                decimal == bcd(hour)
                minutes == bcd(Minute(t))
            IN  << IF IsFalse(mode) /\ hour < 10
                   THEN <<"set_glyph", 0, 0, ~ connected>>
                   ELSE <<"set_number", Shr(decimal, 4), 0, ~ connected>>,
                   <<"set_number", BitAnd(decimal, \h0F), 1, FALSE>>,
                   <<"set_number", Shr(minutes, 4), 2, FALSE>>,
                   <<"set_number", BitAnd(minutes, \h0F), 3,
                     IF IsFalse(mode) THEN is_pm ELSE FALSE>>,
                   <<"set_colon", IsTrue(p["colon"])>> >>
                \o (IF IsTrue(p["colon"]) /\ IsTrue(p["flash"])
                    THEN << <<"set_colon", Second(t) % 2 = 0>> >>
                    ELSE <<>>)
    IN  Face(pico_now_hour(p, t))

\* The main program: default_prefs(), load_prefs(), the display, 'SYNC',
\* and initial_connect() calls connect(), which asks the network
PicoMain ==
    /\ pc = "pico_w/main"
    /\ prefs' = IF arg[1] = "object" THEN pico_set_prefs(pico_default_prefs, arg[2])
                ELSE pico_default_prefs
    /\ \E shown \in {Show(seg_sync_text(Zeros(16)), Zeros(17), <<>>)} :
          /\ buffer' = shown.buffer
          /\ tx_buffer' = shown.tx
    /\ con_count' = 0
    /\ state' = TRUE
    /\ pc' = IF wout THEN "pico_w/initial_connect" ELSE "pico_w/connect"
    /\ UNCHANGED <<arg, ret, kind, map, is_rotated, use_uppercase, is_inverse, last,
                   prev, nops>>
    /\ UNCHANGED <<wout, clock_now, timecheck, flipped, received, face_index,
                   saved_temp, looped, rtc_call>>

\* connect(): 'while not wout.isconnected()' and one pass of its body; the
\* name 'true' in the pass that gives up is not defined: NameError leaves
\* connect() and its callers
PicoPoll ==
    /\ pc \in DOMAIN AfterPicoConnect
    /\ IF wout
       THEN /\ pc' = AfterPicoConnect[pc]
            /\ UNCHANGED <<buffer, tx_buffer, con_count, state>>
       ELSE \E flash \in {Show(buffer, tx_buffer, << <<"set_glyph", \h39, 3, state>> >>)} :
                /\ buffer' = flash.buffer
                /\ tx_buffer' = flash.tx
                /\ state' = ~ state
                /\ con_count' = con_count + 1
                /\ pc' = IF pico_gives_up(con_count + 1) THEN "crashed" ELSE pc
    /\ UNCHANGED <<arg, ret, kind, map, is_rotated, use_uppercase, is_inverse, last,
                   prev, nops>>
    /\ UNCHANGED <<prefs, wout, clock_now, timecheck, flipped, received, face_index,
                   saved_temp, looped, rtc_call>>

\* initial_connect() after connect(): set_rtc() if the network is
\* connected, the display cleared, clock() called
PicoInitialConnect ==
    /\ pc = "pico_w/initial_connect"
    /\ \E got_time \in BOOLEAN :
          /\ wout \/ got_time = FALSE
          /\ timecheck' = got_time
          /\ rtc_call' = IF wout THEN (IF got_time THEN "True" ELSE "False") ELSE "none"
    /\ buffer' = clear(buffer)
    /\ con_count' = 0
    /\ state' = TRUE
    /\ pc' = "pico_w/clock"
    /\ UNCHANGED <<arg, ret, kind, map, tx_buffer, is_rotated, use_uppercase,
                   is_inverse, last, prev, nops>>
    /\ UNCHANGED <<prefs, wout, clock_now, flipped, received, face_index, saved_temp,
                   looped>>

\* Instants localtime() gives: every hour of a summer day at minute 5, and
\* three hours of a winter day
PicoTimes ==
    {<<2025, 6, 15, h, 5, 4>> : h \in 0 .. 23}
        \cup {<<2025, 1, 15, h, 30, 1>> : h \in {0, 12, 23}}

\* localtime(): the RTC runs on from the time read last, or from the time
\* set_rtc() has just set
PicoLocalTimes == IF rtc_call = "True" THEN PicoTimes
                  ELSE {t \in PicoTimes : Stamp(t) >= Stamp(clock_now)}

\* clock(): if now_hour % 6 == 0 and (1 < now_min < 8) and timecheck is False
pico_sync_due(p, t, check) ==
    pico_now_hour(p, t) % 6 = 0 /\ (1 < Minute(t) /\ Minute(t) < 8) /\ check = FALSE

\* clock(): a pass down to the draw(); then connect() is called if the RTC
\* is to be set and the network is not connected
PicoPass ==
    /\ pc = "pico_w/clock"
    /\ \E t \in PicoLocalTimes :
       \E shown \in {Show(buffer, tx_buffer, pico_clock_face(prefs, t, wout))} :
          /\ clock_now' = t
          /\ buffer' = shown.buffer
          /\ tx_buffer' = shown.tx
          /\ pc' = IF shown.exc # "" THEN "crashed"
                   ELSE IF pico_sync_due(prefs, t, timecheck) /\ ~ wout
                        THEN "pico_w/clock/connect"
                        ELSE "pico_w/clock/connected"
    /\ con_count' = 0
    /\ state' = TRUE
    /\ looped' = TRUE
    /\ rtc_call' = "none"
    /\ UNCHANGED <<arg, ret, kind, map, is_rotated, use_uppercase, is_inverse, last,
                   prev, nops>>
    /\ UNCHANGED <<prefs, wout, timecheck, flipped, received, face_index, saved_temp>>

\* clock(): the rest of a pass: set_rtc() if the RTC is to be set and the
\* network is connected, and the reset of timecheck
PicoResume ==
    /\ pc = "pico_w/clock/connected"
    /\ \E got_time \in BOOLEAN :
          LET called == pico_sync_due(prefs, clock_now, timecheck) /\ wout
              check == IF called THEN got_time ELSE timecheck
          IN  /\ called \/ got_time = FALSE
              /\ rtc_call' = IF called THEN (IF got_time THEN "True" ELSE "False")
                             ELSE "none"
              /\ timecheck' = IF pico_now_hour(prefs, clock_now) % 6 > 0 THEN FALSE
                              ELSE check
    /\ con_count' = 0
    /\ state' = TRUE
    /\ pc' = "pico_w/clock"
    /\ UNCHANGED <<arg, ret>>
    /\ UNCHANGED dispVars
    /\ UNCHANGED <<prefs, wout, clock_now, flipped, received, face_index, saved_temp,
                   looped>>

\* The network connects or drops while the Pico W program waits or runs
PicoNetwork ==
    /\ pc \in {"pico_w/main", "pico_w/connect", "pico_w/initial_connect",
               "pico_w/clock", "pico_w/clock/connect", "pico_w/clock/connected"}
    /\ wout' = ~ wout
    /\ UNCHANGED <<pc, arg, ret>>
    /\ UNCHANGED dispVars
    /\ UNCHANGED <<prefs, clock_now, timecheck, flipped, received, face_index,
                   con_count, state, saved_temp, looped, rtc_call>>

(* Specification of the Pico W clock *)

InitPico ==
    /\ pc = "pico_w/main"
    /\ arg \in PicoFiles
    /\ ret = ""
    /\ prefs = <<>>
    /\ ClockIdle
    /\ kind = "segment"
    /\ map = IdentityMap
    /\ buffer = <<>>
    /\ tx_buffer = <<>>
    /\ is_rotated = FALSE
    /\ use_uppercase = FALSE
    /\ is_inverse = FALSE
    /\ last = NoCall
    /\ prev = NoCall
    /\ nops = 0

NextPico ==
    \/ PicoMain
    \/ PicoPoll
    \/ PicoInitialConnect
    \/ PicoPass
    \/ PicoResume
    \/ PicoNetwork

SpecPico == InitPico /\ [][NextPico]_vars

\* C23 as claimed: in the Pico W clock, with the network down, the poll of
\* connect() that brings its count above 40 ends connect() normally:
\* initial_connect() goes on, and the clock loop starts with the network
\* not connected.
C23_PicoConnectGivesUp ==
    [][pc = "pico_w/connect" /\ ~ wout /\ con_count + 1 > 40 =>
            pc' = "pico_w/initial_connect"]_vars

\* British Summer Time is in force on a date: from the last Sunday of March
\* to the day before the last Sunday of October
SummerTime(t) ==
    \/ (t[2] > 3 /\ t[2] < 10)
    \/ (t[2] = 3 /\ t[3] >= LastSunday(t[1], 3))
    \/ (t[2] = 10 /\ t[3] < LastSunday(t[1], 10))

\* the hour a clock shows for the hour e of the day: e itself on the 24-hour
\* clock, 12, 1, ..., 11 on the 12-hour clock
ShownHour(p, e) == IF IsFalse(p["mode"]) THEN ((e + 11) % 12) + 1 ELSE e

\* the first two digits of the segment display show the hour n: its tens
\* and ones, the tens blank on the 12-hour clock before 10
SegmentShowsHour(buf, p, n) ==
    /\ BitAnd(buf[POS[0]], \h7F) =
            (IF IsFalse(p["mode"]) /\ n < 10 THEN \h00 ELSE CHARSET[n \div 10])
    /\ BitAnd(buf[POS[1]], \h7F) = CHARSET[n % 10]

\* C26 as claimed: in the loop of the Pico W clock (and of the experimental
\* RP2040 clock, which has the same lines) the hour shown for the RTC hour h
\* when BST is in force is that of (h + 1) mod 24: 23:xx is shown as 00:xx on
\* the 24-hour clock.
C26_PicoSummerHourWraps ==
    (/\ pc \in {"pico_w/clock/connect", "pico_w/clock/connected"}
     /\ con_count = 0
     /\ IsTrue(prefs["bst"]) /\ SummerTime(clock_now)) =>
        SegmentShowsHour(buffer, prefs, ShownHour(prefs, (Hour(clock_now) + 1) % 24))

\* the hours before 23 are shown as the claim says
PicoSummerHourBefore23 ==
    (/\ pc \in {"pico_w/clock/connect", "pico_w/clock/connected"}
     /\ con_count = 0
     /\ IsTrue(prefs["bst"]) /\ SummerTime(clock_now) /\ Hour(clock_now) < 23) =>
        SegmentShowsHour(buffer, prefs, ShownHour(prefs, (Hour(clock_now) + 1) % 24))

----------------------------------------------------------------------------
(* bst_check() of clock.py, the oldest clock.  now is the tuple localtime()
   gives: year, month, day, hour at the Python indices 0 to 3 *)

\* the loop 'for index in range(31, 24, -1)' of bst_check() of clock.py,
\* from index on: it reads now[3], the hour
RECURSIVE clock_py_bst_loop(_, _, _, _)
clock_py_bst_loop(now, month, from_start, index) ==
    IF index = 24 THEN FALSE
    ELSE IF day_of_week(index, month, now[1]) = 0
            /\ (IF from_start THEN now[4] >= index ELSE now[4] < index)
         THEN TRUE
         ELSE clock_py_bst_loop(now, month, from_start, index - 1)

\* bst_check() of clock.py
clock_py_bst_check(now) ==
    IF now[2] > 3 /\ now[2] < 10 THEN TRUE
    ELSE IF now[2] = 3 /\ clock_py_bst_loop(now, 3, TRUE, 31) THEN TRUE
    ELSE IF now[2] = 10 /\ clock_py_bst_loop(now, 10, FALSE, 31) THEN TRUE
    ELSE FALSE

\* The years and the hours bst_check() of clock.py is called with
OldFirstYear == 2024

OldLastYear == 2027

OldHours == {0, 1, 12, 23}

\* every valid date of the years, at each of the hours
OldTimes ==
    {t \in (OldFirstYear .. OldLastYear) \X (1 .. 12) \X (1 .. 31) \X OldHours :
        t[3] <= DaysIn(t[1], t[2])}

ClockPyInit ==
    /\ pc = "call"
    /\ arg \in OldTimes
    /\ ret = -1

CallClockPyBstCheck ==
    /\ pc = "call"
    /\ ret' = clock_py_bst_check(arg)
    /\ pc' = "clock.py/bst_check"
    /\ UNCHANGED arg

(* Specification of bst_check() of clock.py *)

InitClockPy == ClockPyInit /\ map = IdentityMap /\ DispIdle /\ AppIdle

NextClockPy == CallClockPyBstCheck /\ UNCHANGED dispVars /\ UNCHANGED appVars

SpecClockPy == InitClockPy /\ [][NextClockPy]_vars

\* C24 as claimed: bst_check of clock.py returns what bst_check of the later
\* clocks returns for the same date, whatever the time of day: in March and
\* in October it compares the day of the month with the last Sunday.
C24_OldBstCheckAgrees ==
    (pc = "clock.py/bst_check") => ret = bst_check(<<arg[1], arg[2], arg[3]>>)

\* outside March and October the two functions agree
OldBstCheckAgreesOtherMonths ==
    (pc = "clock.py/bst_check" /\ arg[2] \notin {3, 10}) =>
        ret = bst_check(<<arg[1], arg[2], arg[3]>>)

\* in March clock.py never finds summer time, in October it always does
OldBstCheckByMonth ==
    (pc = "clock.py/bst_check" /\ arg[2] \in {3, 10}) => ret = (arg[2] = 10)

----------------------------------------------------------------------------
(* The faces of the 1.4.0 ESP32 clocks, one drawn over another *)

\* The preferences a prefs.json leaves: the defaults, and the 12-hour clock
FacePrefs ==
    {default_prefs, set_prefs(default_prefs, [k \in {"mode"} |-> Bool(FALSE)])}

\* Instants gmtime() gives: every hour of a summer day and of a winter day
FaceTimes ==
    {<<2025, 6, 15, h, 7, 4>> : h \in 0 .. 23}
        \cup {<<2025, 1, 9, h, 30, 5>> : h \in 0 .. 23}

\* The temperatures process_forecast() saves
MaxTemp == 99

Temperatures == (0 - MaxTemp) .. MaxTemp

\* the faces drawn one over another
MaxFaces == 2

FacesInit ==
    /\ pc = "call"
    /\ arg = 0
    /\ ret = ""
    /\ kind \in {"segment", "matrix"}
    /\ map = IdentityMap
    /\ buffer = Zeros(IF kind = "segment" THEN 16 ELSE 32)
    /\ tx_buffer = Zeros(IF kind = "segment" THEN 17 ELSE 33)
    /\ is_rotated = FALSE
    /\ use_uppercase = FALSE
    /\ is_inverse = FALSE
    /\ last = NoCall
    /\ prev = NoCall
    /\ nops = 0
    /\ prefs \in FacePrefs
    /\ wout \in BOOLEAN
    /\ \/ clock_now \in FaceTimes /\ saved_temp = 0
       \/ clock_now = PowerOn /\ saved_temp \in Temperatures
    /\ timecheck = FALSE
    /\ flipped = FALSE
    /\ received = FALSE
    /\ face_index = 0
    /\ con_count = 0
    /\ state = TRUE
    /\ looped = FALSE
    /\ rtc_call = "none"

\* faces[index](now): a face is drawn over the display
CallFace(face) ==
    /\ nops < MaxFaces
    /\ \E shown \in {Show(buffer, tx_buffer,
                           face_calls(kind, face, prefs, clock_now, wout, saved_temp))} :
          /\ buffer' = shown.buffer
          /\ tx_buffer' = shown.tx
          /\ ret' = shown.exc
    /\ pc' = face
    /\ nops' = nops + 1
    /\ UNCHANGED <<arg, kind, map, is_rotated, use_uppercase, is_inverse, last, prev>>
    /\ UNCHANGED appVars

CallDisplayClock == CallFace("display_clock")

CallDisplayDate == CallFace("display_date")

CallDisplayTemperature == CallFace("display_temperature")

(* Specification of the faces *)

InitFaces == FacesInit

NextFaces ==
    \/ CallDisplayClock
    \/ CallDisplayDate
    \/ CallDisplayTemperature

SpecFaces == InitFaces /\ [][NextFaces]_vars

\* three columns of the matrix from column c on hold the glyph of the digit
\* n, 10 for the space
MatrixShowsDigit(buf, c, n) ==
    \A i \in 1 .. 3 : buf[ColumnByte(c + i - 1)] = MAT_CHARSET[n][i]

\* the matrix shows the hour n in the columns 0-2 and 4-6, the tens blank
\* on the 12-hour clock before 10
MatrixShowsHour(buf, p, n) ==
    /\ MatrixShowsDigit(buf, 0, IF IsFalse(p["mode"]) /\ n < 10 THEN 10 ELSE n \div 10)
    /\ MatrixShowsDigit(buf, 4, n % 10)

ShowsHour(n) ==
    IF kind = "segment" THEN SegmentShowsHour(buffer, prefs, n)
    ELSE MatrixShowsHour(buffer, prefs, n)

\* the hour of the day display_clock is to show for an instant of UTC: one
\* more, modulo 24, when BST is on and in force
AdjustedHour(p, t) ==
    IF IsTrue(p["bst"]) /\ SummerTime(t) THEN (Hour(t) + 1) % 24 ELSE Hour(t)

\* C25: display_clock of the two ESP32 clocks shows, for every UTC hour h in
\* 0..23, the hour h when BST is not in force and the hour (h + 1) mod 24
\* when it is: an hour of 0..23, so 23:xx UTC in summer time is shown as
\* 00:xx on the 24-hour clock (as 12:xx on the 12-hour clock).
C25_DisplayHourWraps ==
    (pc = "display_clock") =>
        /\ ret = ""
        /\ AdjustedHour(prefs, clock_now) \in 0 .. 23
        /\ ShowsHour(ShownHour(prefs, AdjustedHour(prefs, clock_now)))

\* 23:07 UTC of a summer day is shown as 00:07 on the 24-hour segment clock
C25_Witness ==
    /\ pc = "display_clock" /\ kind = "segment" /\ IsTrue(prefs["mode"])
    /\ clock_now = <<2025, 6, 15, 23, 7, 4>>
    /\ BitAnd(buffer[0], \h7F) = \h3F /\ buffer[2] = \h3F
    /\ buffer[6] = \h3F /\ buffer[8] = \h07

\* the PM indicator: the decimal point of digit 3, the pixel (15, 0)
PmIndicator ==
    IF kind = "segment" THEN Bit(buffer[POS[3]], 7) ELSE Pixel(buffer, 15, 0)

\* C27: on the 12-hour clock (mode false) display_clock shows for the
\* BST-adjusted hour h the hour ((h + 11) mod 12) + 1, one of 1..12 with 0
\* and 12 shown as 12, and lights the PM indicator exactly when h >= 12; on
\* the 24-hour clock the PM indicator is not lit.
C27_TwelveHourClock ==
    (pc = "display_clock") =>
        LET h == AdjustedHour(prefs, clock_now)
            shown == ((h + 11) % 12) + 1
        IN  IF IsFalse(prefs["mode"])
            THEN /\ shown \in 1 .. 12
                 /\ (h \in {0, 12} => shown = 12)
                 /\ ShowsHour(shown)
                 /\ (PmIndicator = 1) <=> (h >= 12)
            ELSE PmIndicator = 0

\* 11:07 UTC of a summer day is 12:07 PM on the 12-hour matrix clock
C27_Witness ==
    /\ pc = "display_clock" /\ kind = "matrix" /\ IsFalse(prefs["mode"])
    /\ clock_now = <<2025, 6, 15, 11, 7, 4>>
    /\ MatrixShowsDigit(buffer, 0, 1) /\ MatrixShowsDigit(buffer, 4, 2)
    /\ Pixel(buffer, 15, 0) = 1

\* the temperature face shows the tens digit a and the ones digit b, with
\* the minus sign in front if minus is true: on the segment display in the
\* digits 1 and 2, the sign in digit 0; on the matrix in the columns 4-6 and
\* 8-10, the sign in the columns 0-2
ShowsTemperature(a, b, minus) ==
    IF kind = "segment"
    THEN /\ buffer[POS[1]] = CHARSET[a]
         /\ buffer[POS[2]] = CHARSET[b]
         /\ buffer[POS[0]] = (IF minus THEN CHARSET[HT16K33_SEGMENT_MINUS_CHAR] ELSE \h00)
    ELSE /\ MatrixShowsDigit(buffer, 4, a)
         /\ MatrixShowsDigit(buffer, 8, b)
         /\ \A c \in 0 .. 2 :
                buffer[ColumnByte(c)] = (IF minus THEN \h63 ELSE \h00)

Magnitude(v) == IF v < 0 THEN 0 - v ELSE v

\* C28 as claimed: for every saved_temp in -99..99 display_temperature
\* writes the tens digit of |saved_temp| at the tens position and its ones
\* digit at the ones position, with the minus sign at the first position
\* exactly when saved_temp is negative.
C28_TemperatureDigits ==
    (pc = "display_temperature") =>
        /\ ret = ""
        /\ ShowsTemperature(Magnitude(saved_temp) \div 10, Magnitude(saved_temp) % 10,
                            saved_temp < 0)

\* from -9 up the face is as the claim says
TemperatureDigitsFromMinus9 ==
    (pc = "display_temperature" /\ saved_temp >= -9) =>
        /\ ret = ""
        /\ ShowsTemperature(Magnitude(saved_temp) \div 10, Magnitude(saved_temp) % 10,
                            saved_temp < 0)

\* below -9 the tens digit shown is 0
TemperatureTensBelowMinus9 ==
    (pc = "display_temperature" /\ saved_temp < -9) =>
        /\ ret = ""
        /\ ShowsTemperature(0, Magnitude(saved_temp) % 10, TRUE)

\* C29 as claimed: after set_prefs show_temp is true only if the object
\* loaded gave show_temp = true together with lat and lng; if it gave
\* show_temp and not both coordinates, show_temp is false.
C29_ShowTempNeedsCoordinates ==
    (pc = "loaded" /\ arg[1] = "object") =>
        /\ (IsTrue(prefs["show_temp"]) =>
                /\ Has(arg[2], "show_temp") /\ IsTrue(arg[2]["show_temp"])
                /\ Has(arg[2], "lat") /\ Has(arg[2], "lng"))
        /\ (Has(arg[2], "show_temp")
                /\ ~ (Has(arg[2], "lat") /\ Has(arg[2], "lng")) =>
                    IsFalse(prefs["show_temp"]))

\* without lng show_temp is false, whatever the object gave
ShowTempNeedsLng ==
    (pc = "loaded" /\ arg[1] = "object"
        /\ Has(arg[2], "show_temp") /\ ~ Has(arg[2], "lng")) =>
            IsFalse(prefs["show_temp"])

\* without lat and with lng show_temp is what the object gave
ShowTempWithoutLat ==
    (pc = "loaded" /\ arg[1] = "object"
        /\ Has(arg[2], "show_temp") /\ Has(arg[2], "lng") /\ ~ Has(arg[2], "lat")) =>
            prefs["show_temp"] = arg[2]["show_temp"]

\* C30: for every v in 100..255 bcd(v) is the packed BCD byte of v mod 100:
\* the hundreds digit is dropped, the high nibble is the tens digit and the
\* low nibble the ones digit of v, both in 0..9.
C30_BcdDropsHundreds ==
    (pc = "done" /\ arg \in 100 .. 255) =>
        /\ ret \in 0 .. 255
        /\ Shr(ret, 4) = (arg % 100) \div 10
        /\ BitAnd(ret, \hF) = arg % 10
        /\ Shr(ret, 4) \in 0 .. 9
        /\ BitAnd(ret, \hF) \in 0 .. 9
        /\ ret = bcd(arg % 100)

\* bcd(255) has returned 0x55
C30_Witness == pc = "done" /\ arg = 255 /\ ret = \h55

====
